---- MODULE Spec2Model ----
(***************************************************************************)
(* Bulk NIC/IP settings import of the Zerto VPG examples:                  *)
(*   examples/bulk_ip_edit/import_vpg_settings_nics_from_csv.py            *)
(* flatten (get_current_settings), normalize_value, compare_settings with  *)
(* its validator, the confirmation prompt of main and update_vpg_settings. *)
(*                                                                         *)
(* Python values are pairs <<tag, text>>: tag is the Python type ("str",   *)
(* "none", "bool") or "absent" for a dictionary key that is not there, and *)
(* text is what str() of the value prints.                                 *)
(***************************************************************************)
EXTENDS Naturals, Sequences, FiniteSets, TLC

VARIABLES
    remote,            \* the server's settings: a sequence of VPG trees
    csv_header,        \* the CSV file: its header line (column names in order)
    csv_rows,          \* the CSV file: its data rows (column -> cell text)
    updated_settings,  \* main: rows returned by read_csv_settings
    current_settings,  \* main: rows returned by get_current_settings
    changes,           \* main: the list returned by compare_settings
    pc,                \* main: where the pass is
    calls,             \* the client.vpgs calls made so far, in order
    drafts,            \* the settings written back: [vpg, before, after, located]
    raised,            \* the exception that ended the pass ("" when none)
    response,          \* main: the last answer read at the prompt, lowercased
    vpg_names,         \* --vpg_names: the VPG filter (<<>> when not given)
    nv,                \* normalize_value driver: inputs and results
    printed,           \* display_changes: the last line it printed
    turn,              \* update_vpg_settings: turns of its VPG loop finished
    job,               \* update_vpg_settings: the turn under way: the client
                       \* call that is next, the draft the server holds, the
                       \* draft as read, the local vpg_settings, items located
    exports,           \* the server's exports: the settings each one holds
    jm,                \* vpg_settings_journal_modifier.py run on the same server
    ee,                \* vpg_setting_export_example_enhanced.py run on the same server
    ex,                \* export_vpg_settings_nics_to_csv.py run on the same server
    cv,                \* create_vpgs_from_csv.py run on the same server
    others,            \* the other users of the server that have come: the
                       \* removals an operator made, the other programs started
    timestamp,         \* get_current_settings: the TimeStamp its export returned
                       \* (the place of the export among the server's exports)
    logged             \* update_vpg_settings: the logging.error lines of its lookups

vars == <<remote, csv_header, csv_rows, updated_settings, current_settings,
          changes, pc, calls, drafts, raised, response, vpg_names, nv, printed,
          turn, job, exports, jm, ee, ex, cv, others, timestamp, logged>>

----------------------------------------------------------------------------
(* Python values *)

S(s) == <<"str", s>>
PyNone == <<"none", "None">>
PyTrue == <<"bool", "True">>
PyFalse == <<"bool", "False">>
Absent == <<"absent", "">>
PyBool(b) == IF b THEN PyTrue ELSE PyFalse

\* str(value)
PyStr(v) == v[2]

\* bool(value): the truth value Python gives a str, None or bool
Truthy(v) ==
    CASE v[1] = "str" -> v[2] # ""
      [] v[1] = "bool" -> v = PyTrue
      [] OTHER -> FALSE

\* dict.get(key, default) on a looked-up entry
Get(v, default) == IF v = Absent THEN default ELSE v

\* row.get(field, default) on a flat record
RowGet(row, field, default) ==
    IF field \in DOMAIN row THEN row[field] ELSE default

\* str.lower() on the texts the model uses
Lower(s) ==
    CASE s \in {"True", "TRUE", "true"} -> "true"
      [] s \in {"False", "FALSE", "false"} -> "false"
      [] s \in {"None", "NONE", "none"} -> "none"
      [] s \in {"NULL", "Null", "null"} -> "null"
      [] s \in {"Net-A", "NET-A", "net-a"} -> "net-a"
      [] s \in {"Net-B", "net-b"} -> "net-b"
      [] s \in {"Net-C", "net-c"} -> "net-c"
      [] s \in {"vpgA", "vpga"} -> "vpga"
      [] s \in {"vpgB", "vpgb"} -> "vpgb"
      [] s \in {"Maybe", "maybe"} -> "maybe"
      [] s \in {"Yes", "YES", "yes"} -> "yes"
      [] s \in {"Y", "y"} -> "y"
      [] s \in {"No", "NO", "no"} -> "no"
      [] s \in {"N", "n"} -> "n"
      [] OTHER -> s

NormalizeBoolTitle(value) ==
    IF value \in {S(""), PyNone, S("None"), S("null")} THEN S("")
    ELSE IF value[1] = "bool" THEN S(PyStr(value))
    ELSE IF value[1] = "str" THEN S(Lower(value[2]))
    ELSE S(PyStr(value))

\* normalize_value: the empty sentinels fold to '', a bool to its lowercase
\* text; a str is lowercased (value = value.lower()) and that lowercased text
\* is what every later return gives back.
normalize_value(value) ==
    IF value \in {S(""), PyNone, S("None"), S("null")} THEN S("")
    ELSE IF value[1] = "bool" THEN S(Lower(PyStr(value)))
    ELSE IF value[1] = "str" THEN S(Lower(value[2]))
    ELSE S(PyStr(value))

----------------------------------------------------------------------------
(* The settings tree: VPG -> Vms -> Nics -> role -> Hypervisor -> IpConfig.  *)
(* A JSON object that may be null carries kind "null" (or "absent" for a     *)
(* missing key) and then holds no entries.                                   *)

IpKeys == <<"StaticIp", "SubnetMask", "Gateway", "PrimaryDns", "SecondaryDns">>

NoIpc(kind) ==
    [kind |-> kind, IsDhcp |-> Absent, StaticIp |-> Absent, SubnetMask |-> Absent,
     Gateway |-> Absent, PrimaryDns |-> Absent, SecondaryDns |-> Absent]
NullIpc == NoIpc("null")
AbsentIpc == NoIpc("absent")
Ipc(dhcp, ip, subnet, gw, dns1, dns2) ==
    [kind |-> "obj", IsDhcp |-> dhcp, StaticIp |-> ip, SubnetMask |-> subnet,
     Gateway |-> gw, PrimaryDns |-> dns1, SecondaryDns |-> dns2]

NoHyp(kind) ==
    [kind |-> kind, NetworkIdentifier |-> Absent,
     ShouldReplaceIpConfiguration |-> Absent, IpConfig |-> AbsentIpc]
NullHyp == NoHyp("null")
EmptyHyp == NoHyp("obj")          \* the dict {}
Hyp(net, replace, ipc) ==
    [kind |-> "obj", NetworkIdentifier |-> net,
     ShouldReplaceIpConfiguration |-> replace, IpConfig |-> ipc]

\* a role of a NIC: nic['Failover'] or nic['FailoverTest'].  Its entries are
\* 'Hypervisor' and 'PublicCloud'; either may be missing.
NullRole == [kind |-> "null", Hypervisor |-> NoHyp("absent"), PublicCloud |-> Absent]
AbsentRole == [kind |-> "absent", Hypervisor |-> NoHyp("absent"), PublicCloud |-> Absent]
Role(hyp) == [kind |-> "obj", Hypervisor |-> hyp, PublicCloud |-> Absent]
EmptyRole == Role(NoHyp("absent"))                      \* the dict {}
CloudRole == [kind |-> "obj", Hypervisor |-> NoHyp("absent"), PublicCloud |-> PyNone]

Nic(id, failover, failover_test) ==
    [NicIdentifier |-> id, Failover |-> failover, FailoverTest |-> failover_test]
Vm(id, nics) == [VmIdentifier |-> id, Nics |-> nics]
\* hours in a day, as vpg_settings_journal_modifier.py counts them
HoursPerDay == 24
Vpg(name, vms) == [Name |-> name, JournalHistoryInHours |-> HoursPerDay, Vms |-> vms]

\* Python truth of the JSON objects: None and {} are false
IpcTruthy(ipc) ==
    /\ ipc.kind = "obj"
    /\ \E k \in {"IsDhcp", "StaticIp", "SubnetMask", "Gateway", "PrimaryDns",
                 "SecondaryDns"} : ipc[k] # Absent
HypTruthy(hyp) ==
    /\ hyp.kind = "obj"
    /\ \/ hyp.NetworkIdentifier # Absent
       \/ hyp.ShouldReplaceIpConfiguration # Absent
       \/ hyp.IpConfig.kind # "absent"
RoleTruthy(role) ==
    /\ role.kind = "obj"
    /\ role.Hypervisor.kind # "absent" \/ role.PublicCloud # Absent

----------------------------------------------------------------------------
(* Flat records: a row is a function from column name to value *)

IdentityFields == <<"VPG Name", "VM Identifier", "NIC Identifier">>
AddressFields == <<"IP", "Subnet", "Gateway", "DNS1", "DNS2">>
Prefixes == <<"Failover", "Failover Test">>

Col(prefix, field) == prefix \o " " \o field

RoleColumns(prefix) ==
    <<Col(prefix, "Network"), Col(prefix, "ShouldReplaceIpConfiguration"),
      Col(prefix, "DHCP"), Col(prefix, "IP"), Col(prefix, "Subnet"),
      Col(prefix, "Gateway"), Col(prefix, "DNS1"), Col(prefix, "DNS2")>>

\* the column order of the exported CSV
fieldnames == IdentityFields \o RoleColumns("Failover") \o RoleColumns("Failover Test")

Range(seq) == {seq[i] : i \in DOMAIN seq}

KeyNoNic(row) == <<row["VPG Name"], row["VM Identifier"]>>

\* the identity key of a row
Key(row) == <<row["VPG Name"], row["VM Identifier"], row["NIC Identifier"]>>

\* nic[role]['Hypervisor'] if nic[role] and nic[role]['Hypervisor'] else {}:
\* the Hypervisor dict a role is read through.  It is {} when the role is
\* None or {} or its Hypervisor entry is None or {}; the subscripts raise
\* KeyError when the NIC has no such role key, or when the role is a
\* non-empty dict without a 'Hypervisor' key.
ExtractHypervisor(role) ==
    IF role.kind = "absent" THEN NoHyp("KeyError")
    ELSE IF ~RoleTruthy(role) THEN EmptyHyp
    ELSE IF role.Hypervisor.kind = "absent" THEN NoHyp("KeyError")
    ELSE IF HypTruthy(role.Hypervisor) THEN role.Hypervisor
    ELSE EmptyHyp

\* hyp.get('IpConfig', {}) or {}
ExtractIpConfig(hyp) == IF IpcTruthy(hyp.IpConfig) THEN hyp.IpConfig ELSE AbsentIpc

\* '' for None, the value otherwise
OrEmpty(v) == IF v = PyNone THEN S("") ELSE v

FlattenRoleAllStrings(prefix, role) ==
    LET hyp == ExtractHypervisor(role)
        ipc == ExtractIpConfig(hyp)
    IN  (Col(prefix, "Network") :> OrEmpty(Get(hyp.NetworkIdentifier, S(""))))
        @@ (Col(prefix, "ShouldReplaceIpConfiguration") :>
                S(PyStr(Get(hyp.ShouldReplaceIpConfiguration, PyFalse))))
        @@ (Col(prefix, "DHCP") :> S(PyStr(Get(ipc.IsDhcp, PyFalse))))
        @@ (Col(prefix, "IP") :> OrEmpty(Get(ipc.StaticIp, S(""))))
        @@ (Col(prefix, "Subnet") :> OrEmpty(Get(ipc.SubnetMask, S(""))))
        @@ (Col(prefix, "Gateway") :> OrEmpty(Get(ipc.Gateway, S(""))))
        @@ (Col(prefix, "DNS1") :> OrEmpty(Get(ipc.PrimaryDns, S(""))))
        @@ (Col(prefix, "DNS2") :> OrEmpty(Get(ipc.SecondaryDns, S(""))))

\* the eight cells get_current_settings builds for one role of a NIC
FlattenRole(prefix, role) ==
    LET hyp == ExtractHypervisor(role)
        ipc == ExtractIpConfig(hyp)
    IN  (Col(prefix, "Network") :> Get(hyp.NetworkIdentifier, S("")))
        @@ (Col(prefix, "ShouldReplaceIpConfiguration") :>
                S(PyStr(Get(hyp.ShouldReplaceIpConfiguration, PyFalse))))
        @@ (Col(prefix, "DHCP") :> S(PyStr(Get(ipc.IsDhcp, PyFalse))))
        @@ (Col(prefix, "IP") :> Get(ipc.StaticIp, S("")))
        @@ (Col(prefix, "Subnet") :> Get(ipc.SubnetMask, S("")))
        @@ (Col(prefix, "Gateway") :> Get(ipc.Gateway, S("")))
        @@ (Col(prefix, "DNS1") :> Get(ipc.PrimaryDns, S("")))
        @@ (Col(prefix, "DNS2") :> Get(ipc.SecondaryDns, S("")))

\* the extraction of a NIC's two roles raises KeyError
NicRaises(nic) ==
    \/ ExtractHypervisor(nic.Failover).kind = "KeyError"
    \/ ExtractHypervisor(nic.FailoverTest).kind = "KeyError"

\* the loops of get_current_settings meet a NIC whose extraction raises
FlattenRaises(settings) ==
    \E g \in DOMAIN settings : \E v \in DOMAIN settings[g].Vms :
        \E n \in DOMAIN settings[g].Vms[v].Nics : NicRaises(settings[g].Vms[v].Nics[n])

FlattenNic(vpg_name, vm_id, nic) ==
    ("VPG Name" :> S(vpg_name)) @@ ("VM Identifier" :> S(vm_id))
    @@ ("NIC Identifier" :> S(nic.NicIdentifier))
    @@ FlattenRole("Failover", nic.Failover)
    @@ FlattenRole("Failover Test", nic.FailoverTest)

RECURSIVE FlattenNics(_, _, _)
FlattenNics(vpg_name, vm_id, nics) ==
    IF nics = <<>> THEN <<>>
    ELSE <<FlattenNic(vpg_name, vm_id, Head(nics))>>
         \o FlattenNics(vpg_name, vm_id, Tail(nics))

RECURSIVE FlattenVms(_, _)
FlattenVms(vpg_name, vms) ==
    IF vms = <<>> THEN <<>>
    ELSE FlattenNics(vpg_name, Head(vms).VmIdentifier, Head(vms).Nics)
         \o FlattenVms(vpg_name, Tail(vms))

\* get_current_settings' conversion loop: one row per NIC, in VPG, VM, NIC order
RECURSIVE Flatten(_)
Flatten(export_settings) ==
    IF export_settings = <<>> THEN <<>>
    ELSE FlattenVms(Head(export_settings).Name, Head(export_settings).Vms)
         \o Flatten(Tail(export_settings))

----------------------------------------------------------------------------
(* compare_settings: the validator and the diff *)

\* client.vms.list_vms(vm_identifier=vm_id).get('VmName')
VmName(vm_id) == S("name-of-" \o PyStr(vm_id))

should_replace(row, prefix) ==
    normalize_value(RowGet(row, Col(prefix, "ShouldReplaceIpConfiguration"), S(""))) = S("true")

dhcp(row, prefix) ==
    normalize_value(RowGet(row, Col(prefix, "DHCP"), S(""))) = S("true")

\* any(row.get(f'{prefix} {field}') for field in [...]): the raw cell's truth
has_static_ip(row, prefix) ==
    \E i \in DOMAIN AddressFields :
        Truthy(RowGet(row, Col(prefix, AddressFields[i]), PyNone))

ValidateNoGate(row, prefix) ==
    IF should_replace(row, prefix) /\ ~dhcp(row, prefix) /\ ~has_static_ip(row, prefix)
        THEN "no_ip_configuration"
    ELSE IF dhcp(row, prefix) /\ has_static_ip(row, prefix)
        THEN "dhcp_and_static"
    ELSE "ok"

ValidateNoExclusivity(row, prefix) ==
    IF ~should_replace(row, prefix) /\ (dhcp(row, prefix) \/ has_static_ip(row, prefix))
        THEN "replace_is_false"
    ELSE IF should_replace(row, prefix) /\ ~dhcp(row, prefix) /\ ~has_static_ip(row, prefix)
        THEN "no_ip_configuration"
    ELSE "ok"

ValidateRejectsDhcp(row, prefix) ==
    IF ~should_replace(row, prefix) /\ (dhcp(row, prefix) \/ has_static_ip(row, prefix))
        THEN "replace_is_false"
    ELSE IF should_replace(row, prefix) /\ ~has_static_ip(row, prefix)
        THEN "no_ip_configuration"
    ELSE IF dhcp(row, prefix) /\ has_static_ip(row, prefix)
        THEN "dhcp_and_static"
    ELSE "ok"

\* validate_ip_settings(prefix): "ok", or the ValueError it raises
validate_ip_settings(row, prefix) ==
    IF ~should_replace(row, prefix) /\ (dhcp(row, prefix) \/ has_static_ip(row, prefix))
        THEN "replace_is_false"
    ELSE IF should_replace(row, prefix) /\ ~dhcp(row, prefix) /\ ~has_static_ip(row, prefix)
        THEN "no_ip_configuration"
    ELSE IF dhcp(row, prefix) /\ has_static_ip(row, prefix)
        THEN "dhcp_and_static"
    ELSE "ok"

\* validate_dhcp_settings: both roles, Failover first; TRUE when nothing is raised
validate_dhcp_settings(row) ==
    /\ validate_ip_settings(row, "Failover") = "ok"
    /\ validate_ip_settings(row, "Failover Test") = "ok"

\* current_lookup.get(key): the last current row with that key (a dict
\* comprehension keeps the last value of a repeated key); <<>> when none
RECURSIVE current_lookup(_, _)
current_lookup(current, key) ==
    IF current = <<>> THEN <<>>
    ELSE IF Key(current[Len(current)]) = key THEN <<current[Len(current)]>>
    ELSE current_lookup(SubSeq(current, 1, Len(current) - 1), key)

IsIdentityField(field) == field \in Range(IdentityFields)

RECURSIVE RowChangesNormalized(_, _, _)
RowChangesNormalized(current_row, updated_row, fields) ==
    IF fields = <<>> THEN <<>>
    ELSE LET field == Head(fields)
             rest == RowChangesNormalized(current_row, updated_row, Tail(fields))
             current_value == normalize_value(RowGet(current_row, field, S("")))
             updated_value == normalize_value(RowGet(updated_row, field, S("")))
         IN  IF IsIdentityField(field) THEN rest
             ELSE IF current_value # updated_value
                  THEN <<[field |-> field,
                          current |-> current_value,
                          updated |-> updated_value]>> \o rest
             ELSE rest

\* the field loop of compare_settings: row_changes, in the updated row's
\* column order, as a sequence of [field, current, updated]
RECURSIVE RowChanges(_, _, _)
RowChanges(current_row, updated_row, fields) ==
    IF fields = <<>> THEN <<>>
    ELSE LET field == Head(fields)
             rest == RowChanges(current_row, updated_row, Tail(fields))
             current_value == normalize_value(RowGet(current_row, field, S("")))
             updated_value == normalize_value(RowGet(updated_row, field, S("")))
         IN  IF IsIdentityField(field) THEN rest
             ELSE IF current_value # updated_value
                  THEN <<[field |-> field,
                          current |-> RowGet(current_row, field, S("")),
                          updated |-> RowGet(updated_row, field, S(""))]>> \o rest
             ELSE rest

ChangeItem(updated_row, row_changes) ==
    [vpg |-> updated_row["VPG Name"], vm |-> updated_row["VM Identifier"],
     nic |-> updated_row["NIC Identifier"],
     vm_name |-> VmName(updated_row["VM Identifier"]),
     changes |-> row_changes]

\* one turn of `for updated_row in updated`: the items it appends
RowItems(current, updated_row, fields) ==
    LET found == current_lookup(current, Key(updated_row))
    IN  IF found = <<>> THEN <<>>
        ELSE LET row_changes == RowChanges(found[1], updated_row, fields)
             IN  IF row_changes = <<>> THEN <<>>
                 ELSE <<ChangeItem(updated_row, row_changes)>>

HasIdentity(row) == Range(IdentityFields) \subseteq DOMAIN row

RECURSIVE CompareSkipInvalid(_, _, _)
CompareSkipInvalid(current, updated, fields) ==
    IF updated = <<>> THEN [raised |-> "none", changes |-> <<>>]
    ELSE LET updated_row == Head(updated)
             rest == CompareSkipInvalid(current, Tail(updated), fields)
         IN  IF ~HasIdentity(updated_row)
                 THEN [raised |-> "KeyError", changes |-> <<>>]
             ELSE IF ~validate_dhcp_settings(updated_row) THEN rest
             ELSE IF rest.raised # "none" THEN rest
             ELSE [raised |-> "none",
                   changes |-> RowItems(current, updated_row, fields) \o rest.changes]

\* compare_settings(client, current, updated): what it raises ("none" when it
\* returns) and the list it returns.  `fields` is the key order of the
\* updated rows.  A row is validated, then diffed, before the next row is
\* looked at; the first raise ends the call.
RECURSIVE compare_settings(_, _, _)
compare_settings(current, updated, fields) ==
    IF updated = <<>> THEN [raised |-> "none", changes |-> <<>>]
    ELSE LET updated_row == Head(updated)
         IN  IF ~HasIdentity(updated_row)
                 THEN [raised |-> "KeyError", changes |-> <<>>]
             ELSE IF ~validate_dhcp_settings(updated_row)
                 THEN [raised |-> "ValueError", changes |-> <<>>]
             ELSE LET rest == compare_settings(current, Tail(updated), fields)
                  IN  IF rest.raised # "none" THEN rest
                      ELSE [raised |-> "none",
                            changes |-> RowItems(current, updated_row, fields) \o rest.changes]

----------------------------------------------------------------------------
(* update_vpg_settings: the patcher *)

\* the IpConfig the patcher creates when a role has none
NewIpConfig == Ipc(PyFalse, PyNone, PyNone, PyNone, PyNone, PyNone)

\* if not nic.get('Failover'): nic['Failover'] = {'Hypervisor': {}}  (both roles)
InitStructures(nic) ==
    [nic EXCEPT !.Failover = IF RoleTruthy(@) THEN @ ELSE Role(EmptyHyp),
                !.FailoverTest = IF RoleTruthy(@) THEN @ ELSE Role(EmptyHyp)]

\* values['updated'] if values['updated'] else None
OrNone(v) == IF Truthy(v) THEN v ELSE PyNone

PatchIpConfigKeepsMissing(ipc0, name, updated) ==
    LET ipc == IF IpcTruthy(ipc0) THEN ipc0 ELSE [NoIpc("obj") EXCEPT !.IsDhcp = PyTrue]
        is_dhcp == normalize_value(updated) = S("true")
    IN  CASE name = "DHCP" ->
               IF is_dhcp
               THEN [ipc EXCEPT !.IsDhcp = PyTrue, !.StaticIp = PyNone,
                                !.SubnetMask = PyNone, !.Gateway = PyNone,
                                !.PrimaryDns = PyNone, !.SecondaryDns = PyNone]
               ELSE [ipc EXCEPT !.IsDhcp = PyFalse]
          [] name = "IP" -> [ipc EXCEPT !.StaticIp = OrNone(updated)]
          [] name = "Subnet" ->
               [ipc EXCEPT !.SubnetMask =
                               IF Truthy(updated) THEN updated ELSE S("255.255.255.0")]
          [] name = "Gateway" -> [ipc EXCEPT !.Gateway = OrNone(updated)]
          [] name = "DNS1" -> [ipc EXCEPT !.PrimaryDns = OrNone(updated)]
          [] name = "DNS2" -> [ipc EXCEPT !.SecondaryDns = OrNone(updated)]

\* the IpConfig after one field of a role is written; `name` is the column
\* name without its role prefix
PatchIpConfig(ipc0, name, updated) ==
    LET ipc == IF IpcTruthy(ipc0) THEN ipc0 ELSE NewIpConfig
        is_dhcp == normalize_value(updated) = S("true")
    IN  CASE name = "DHCP" ->
               IF is_dhcp
               THEN [ipc EXCEPT !.IsDhcp = PyTrue, !.StaticIp = PyNone,
                                !.SubnetMask = PyNone, !.Gateway = PyNone,
                                !.PrimaryDns = PyNone, !.SecondaryDns = PyNone]
               ELSE [ipc EXCEPT !.IsDhcp = PyFalse]
          [] name = "IP" -> [ipc EXCEPT !.StaticIp = OrNone(updated)]
          [] name = "Subnet" ->
               [ipc EXCEPT !.SubnetMask =
                               IF Truthy(updated) THEN updated ELSE S("255.255.255.0")]
          [] name = "Gateway" -> [ipc EXCEPT !.Gateway = OrNone(updated)]
          [] name = "DNS1" -> [ipc EXCEPT !.PrimaryDns = OrNone(updated)]
          [] name = "DNS2" -> [ipc EXCEPT !.SecondaryDns = OrNone(updated)]

\* the Hypervisor dict after one field of a role is written
PatchHypervisor(hyp, name, updated) ==
    CASE name = "ShouldReplaceIpConfiguration" ->
           [hyp EXCEPT !.ShouldReplaceIpConfiguration =
                           PyBool(normalize_value(updated) = S("true"))]
      [] name = "Network" -> [hyp EXCEPT !.NetworkIdentifier = updated]
      [] OTHER -> [hyp EXCEPT !.IpConfig = PatchIpConfig(@, name, updated)]

RoleFieldNames ==
    <<"Network", "ShouldReplaceIpConfiguration", "DHCP", "IP", "Subnet",
      "Gateway", "DNS1", "DNS2">>

\* the role key and bare field name of a column the patcher handles
\* (<<>> for any other column, which the patcher passes over)
FieldTarget(field) ==
    IF \E i \in DOMAIN RoleFieldNames : field = Col("Failover", RoleFieldNames[i])
        THEN <<"Failover",
               (CHOOSE n \in Range(RoleFieldNames) : field = Col("Failover", n))>>
    ELSE IF \E i \in DOMAIN RoleFieldNames : field = Col("Failover Test", RoleFieldNames[i])
        THEN <<"FailoverTest",
               (CHOOSE n \in Range(RoleFieldNames) : field = Col("Failover Test", n))>>
    ELSE <<>>

\* index of the first element whose identifier is id (0: not found)
RECURSIVE IndexOf(_, _, _, _)
IndexOf(seq, key, id, i) ==
    IF i > Len(seq) THEN 0
    ELSE IF S(seq[i][key]) = id THEN i
    ELSE IndexOf(seq, key, id, i + 1)

FindVm(vms, vm_id) == IndexOf(vms, "VmIdentifier", vm_id, 1)
FindNicFirst(nics, nic_id) == IF nics = <<>> THEN 0 ELSE 1
FindNic(nics, nic_id) == IndexOf(nics, "NicIdentifier", nic_id, 1)
VpgIndex(settings, name) == IndexOf(settings, "Name", name, 1)

Call(op, name) == [op |-> op, vpg |-> name]

(* The patcher works on st = [remote, calls, drafts, raised, settings,      *)
(* located, logged, ...]: the server's settings, the client calls made,     *)
(* the settings written back, the exception raised ("" when none), the      *)
(* draft under patch (vpg_settings), the number of its change items         *)
(* located and the lines given to logging.error.                            *)

\* one turn of `for field, values in change['changes'].items()` on the NIC
\* at Vms[v].Nics[n] of the draft.  Writing through a Hypervisor entry that
\* is None raises: TypeError for the item assignment of the Network and
\* ShouldReplaceIpConfiguration writes, AttributeError for the
\* nic[role]['Hypervisor'].get('IpConfig') of the DHCP and address writes.
PatchField(st, v, n, ch) ==
    LET target == FieldTarget(ch.field)
    IN  IF st.raised # "" \/ target = <<>> THEN st
        ELSE IF st.settings.Vms[v].Nics[n][target[1]].Hypervisor.kind = "absent"
             THEN [st EXCEPT !.raised = "KeyError"]
        ELSE IF st.settings.Vms[v].Nics[n][target[1]].Hypervisor.kind # "obj"
             THEN [st EXCEPT !.raised =
                                IF target[2] \in {"Network", "ShouldReplaceIpConfiguration"}
                                THEN "TypeError" ELSE "AttributeError"]
        ELSE [st EXCEPT !.settings.Vms[v].Nics[n][target[1]].Hypervisor =
                            PatchHypervisor(@, target[2], ch.updated)]

RECURSIVE PatchFields(_, _, _, _)
PatchFields(st, v, n, chs) ==
    IF chs = <<>> THEN st
    ELSE PatchFields(PatchField(st, v, n, Head(chs)), v, n, Tail(chs))

\* the NIC of a change item is found: both roles are initialised, then every
\* changed field is written
PatchNic(st, v, n, change) ==
    PatchFields([st EXCEPT !.located = @ + 1,
                           !.settings.Vms[v].Nics[n] = InitStructures(@)],
                v, n, change.changes)

\* logging.error(f"update_vpg_settings: ... not found ...") for a change item
Logged(st, what, change) ==
    [st EXCEPT !.logged = Append(@, [what |-> what, vpg |-> change.vpg,
                                     vm |-> change.vm, nic |-> change.nic])]

\* logging.error(f"update_vpg_settings: VPG {vpg_name} not found")
LoggedVpg(st, name) ==
    [st EXCEPT !.logged = Append(@, [what |-> "VPG not found", vpg |-> name,
                                     vm |-> Absent, nic |-> Absent])]

RECURSIVE InitAllNics(_)
InitAllNics(nics) ==
    IF nics = <<>> THEN <<>> ELSE <<InitStructures(Head(nics))>> \o InitAllNics(Tail(nics))

PatchItemInitAll(st, change) ==
    LET v == FindVm(st.settings.Vms, change.vm)
    IN  IF st.raised # "" THEN st
        ELSE IF v = 0 THEN Logged(st, "VM not found", change)
        ELSE LET n == FindNic(st.settings.Vms[v].Nics, change.nic)
             IN  IF n = 0 THEN Logged(st, "NIC not found", change)
                 ELSE PatchNic([st EXCEPT !.settings.Vms[v].Nics = InitAllNics(@)],
                               v, n, change)

\* one turn of `for change in vpg_change_list`: a VM or NIC that is not in
\* the draft is logged and the item passed over
PatchItemFailsOnMiss(st, change) ==
    LET v == FindVm(st.settings.Vms, change.vm)
    IN  IF st.raised # "" THEN st
        ELSE IF v = 0 THEN [Logged(st, "VM not found", change) EXCEPT !.raised = "Exception"]
        ELSE LET n == FindNic(st.settings.Vms[v].Nics, change.nic)
             IN  IF n = 0
                 THEN [Logged(st, "NIC not found", change) EXCEPT !.raised = "Exception"]
                 ELSE PatchNic(st, v, n, change)

PatchItem(st, change) ==
    LET v == FindVm(st.settings.Vms, change.vm)
    IN  IF st.raised # "" THEN st
        ELSE IF v = 0 THEN Logged(st, "VM not found", change)
        ELSE LET n == FindNic(st.settings.Vms[v].Nics, change.nic)
             IN  IF n = 0 THEN Logged(st, "NIC not found", change)
                 ELSE PatchNic(st, v, n, change)

RECURSIVE PatchItemsStopAtMiss(_, _)
PatchItemsStopAtMiss(st, items) ==
    IF items = <<>> THEN st
    ELSE IF PatchItem(st, Head(items)).located = st.located THEN st
    ELSE PatchItemsStopAtMiss(PatchItem(st, Head(items)), Tail(items))

RECURSIVE PatchItems(_, _)
PatchItems(st, items) ==
    IF items = <<>> THEN st
    ELSE PatchItems(PatchItem(st, Head(items)), Tail(items))

RECURSIVE GroupNamesByLastItem(_)
GroupNamesByLastItem(chgs) ==
    IF chgs = <<>> THEN <<>>
    ELSE IF chgs[1].vpg \in {chgs[i].vpg : i \in 2..Len(chgs)}
         THEN GroupNamesByLastItem(Tail(chgs))
    ELSE <<chgs[1].vpg>> \o GroupNamesByLastItem(Tail(chgs))

\* vpg_changes: the VPG names of the change list, in order of first appearance
RECURSIVE GroupNames(_)
GroupNames(chgs) ==
    IF chgs = <<>> THEN <<>>
    ELSE IF chgs[Len(chgs)].vpg \in {chgs[i].vpg : i \in 1..(Len(chgs) - 1)}
         THEN GroupNames(SubSeq(chgs, 1, Len(chgs) - 1))
    ELSE Append(GroupNames(SubSeq(chgs, 1, Len(chgs) - 1)), chgs[Len(chgs)].vpg)

ItemsOf(chgs, name) == SelectSeq(chgs, LAMBDA c : c.vpg = name)

NoDraft == Vpg("", <<>>)

\* no turn under way
IdleJob == [phase |-> "list", held |-> NoDraft, before |-> NoDraft,
            settings |-> NoDraft, located |-> 0]

\* client.vpgs.list_vpgs(vpg_name=vpg_name)
list_vpgs(st, name) ==
    [st EXCEPT !.calls = Append(@, Call("list_vpgs", name))]

\* client.vpgs.create_vpg_settings(vpg_identifier=...): the server opens a
\* draft that holds the VPG's settings of that moment; a server that no
\* longer has the VPG fails the call
create_vpg_settings(st, name) ==
    IF st.raised # "" THEN st
    ELSE IF VpgIndex(st.remote, name) = 0
    THEN [st EXCEPT !.calls = Append(@, Call("create_vpg_settings", name)),
                    !.raised = "Exception"]
    ELSE [st EXCEPT !.calls = Append(@, Call("create_vpg_settings", name)),
                    !.held = st.remote[VpgIndex(st.remote, name)]]

\* client.vpgs.get_vpg_settings_by_id(vpg_settings_id): vpg_settings is the
\* draft the server holds
get_vpg_settings_by_id(st, name) ==
    IF st.raised # "" THEN st
    ELSE [st EXCEPT !.calls = Append(@, Call("get_vpg_settings_by_id", name)),
                    !.before = st.held,
                    !.settings = st.held,
                    !.located = 0]

\* client.vpgs.update_vpg_settings(vpg_settings_id, vpg_settings): the
\* server's draft becomes the patched vpg_settings
SendDraft(st, name) ==
    IF st.raised # "" THEN st
    ELSE [st EXCEPT !.calls = Append(@, Call("update_vpg_settings", name)),
                    !.held = st.settings]

\* client.vpgs.commit_vpg(vpg_settings_id, vpg_name, sync=False): the server
\* takes the draft it holds as the VPG's settings; a server that no longer
\* has the VPG fails the call
CommitDraft(st, name) ==
    IF st.raised # "" THEN st
    ELSE IF VpgIndex(st.remote, name) = 0
    THEN [st EXCEPT !.calls = Append(@, Call("commit_vpg", name)),
                    !.raised = "Exception"]
    ELSE [st EXCEPT !.remote[VpgIndex(st.remote, name)] = st.held,
                    !.calls = Append(@, Call("commit_vpg", name)),
                    !.drafts = Append(@, [vpg |-> name,
                                          before |-> st.before,
                                          after |-> st.held,
                                          located |-> st.located])]

\* one turn of `for vpg_name, vpg_change_list in vpg_changes.items()`: a VPG
\* the server does not list is logged and passed over
UpdateOneVpg(st, name, items) ==
    IF VpgIndex(st.remote, name) = 0
    THEN LoggedVpg(list_vpgs(st, name), name)
    ELSE CommitDraft(
           SendDraft(
             PatchItems(
               get_vpg_settings_by_id(
                 create_vpg_settings(list_vpgs(st, name), name), name),
               items),
             name),
           name)

RECURSIVE UpdateVpgs(_, _, _)
UpdateVpgs(st, names, chgs) ==
    IF names = <<>> \/ st.raised # "" THEN st
    ELSE UpdateVpgs(UpdateOneVpg(st, Head(names), ItemsOf(chgs, Head(names))),
                    Tail(names), chgs)

\* update_vpg_settings(client, changes): every VPG of the change list in
\* turn; an exception ends the call
update_vpg_settings(st, chgs) == UpdateVpgs(st, GroupNames(chgs), chgs)

----------------------------------------------------------------------------
(* Inputs: the settings trees the server may hold and the CSV files the     *)
(* operator may hand in.                                                    *)

MaxRows == 3          \* rows of a CSV file over the four-NIC tree

Net(hyp_net, replace, ipc) == Role(Hyp(hyp_net, replace, ipc))

StaticFull ==
    Ipc(PyFalse, S("10.0.0.5"), S("255.255.255.0"), S("10.0.0.1"), S("8.8.8.8"), S("8.8.4.4"))
StaticIpOnly == Ipc(PyFalse, S("10.0.0.5"), PyNone, PyNone, PyNone, PyNone)
DhcpIpc == Ipc(PyTrue, PyNone, PyNone, PyNone, PyNone, PyNone)
EmptyIpc == Ipc(PyFalse, PyNone, PyNone, PyNone, PyNone, PyNone)
\* an IpConfig with the StaticIp entry only
IpOnlyIpc == [NoIpc("obj") EXCEPT !.StaticIp = S("10.0.0.5")]

\* roles with entries missing: the role {}, the Hypervisor dict {}, a
\* Hypervisor dict with the network only, an IpConfig {} and an IpConfig
\* with one entry
SparseShapes ==
    { EmptyRole,
      Role(EmptyHyp),
      Role(Hyp(S("Net-A"), Absent, AbsentIpc)),
      Net(S("Net-A"), PyFalse, NoIpc("obj")),
      Net(S("Net-A"), PyTrue, IpOnlyIpc) }

\* roles the extraction cannot read: the NIC has no such key, or the role
\* has entries but no Hypervisor entry
UnreadableShapes == { AbsentRole, CloudRole }

\* the shapes of one role of a NIC
RoleShapes ==
    { NullRole,
      Role(NullHyp),
      Net(S("Net-A"), PyFalse, NullIpc),
      Net(PyNone, PyFalse, NullIpc),
      Net(S("Net-A"), PyFalse, EmptyIpc),
      Net(S("Net-A"), PyFalse, DhcpIpc),
      Net(S("Net-A"), PyFalse, StaticFull),
      Net(S("Net-A"), PyTrue, NullIpc),
      Net(S("Net-A"), PyTrue, DhcpIpc),
      Net(S("Net-A"), PyTrue, StaticFull),
      Net(S("Net-A"), PyTrue, StaticIpOnly) }
    \cup SparseShapes \cup UnreadableShapes

\* the shapes of the role that is not under edit
QuietShapes == { NullRole, Net(S("Net-B"), PyFalse, NullIpc) }

NicShapes ==
    {<<r, q>> : r \in RoleShapes, q \in QuietShapes}
    \cup {<<q, r>> : r \in RoleShapes, q \in QuietShapes}

OneNicTree(shape) ==
    <<Vpg("vpgA", <<Vm("vm1", <<Nic("nic0", shape[1], shape[2])>>)>>)>>

FourNicTree ==
    <<Vpg("vpgA",
          <<Vm("vm1", <<Nic("nic0", Net(S("Net-A"), PyTrue, StaticFull),
                                    Net(S("Net-B"), PyTrue, DhcpIpc)),
                        Nic("nic1", Net(S("Net-A"), PyFalse, NullIpc), NullRole)>>),
            Vm("vm2", <<Nic("nic0", Net(S("Net-A"), PyFalse, NullIpc),
                                    Net(S("Net-B"), PyFalse, NullIpc))>>)>>),
      Vpg("vpgB",
          <<Vm("vm3", <<Nic("nic0", Net(S("Net-A"), PyTrue, DhcpIpc),
                                    Net(S("Net-B"), PyFalse, NullIpc))>>)>>)>>

\* what csv.DictWriter writes for a value and csv.DictReader reads back
CsvText(v) == IF v = PyNone THEN S("") ELSE S(PyStr(v))

\* a flat record written to the exported CSV and read back
CsvRow(row) == [c \in DOMAIN row |-> CsvText(row[c])]

AddressCells ==
    { <<"", "", "", "", "">>,
      <<"10.0.0.6", "", "", "", "">>,
      <<"10.0.0.5", "", "", "", "">>,
      <<"None", "", "", "", "">>,
      <<"", "255.255.0.0", "", "", "">>,
      <<"", "", "10.0.0.1", "", "">>,
      <<"", "", "", "8.8.8.8", "">>,
      <<"", "", "", "", "8.8.4.4">>,
      <<"10.0.0.5", "255.255.255.0", "10.0.0.1", "8.8.8.8", "8.8.4.4">>,
      <<"10.0.0.6", "255.255.0.0", "10.0.0.2", "1.1.1.1", "1.0.0.1">> }

RoleCells(prefix, net, replace, dh, addr) ==
    (Col(prefix, "Network") :> S(net))
    @@ (Col(prefix, "ShouldReplaceIpConfiguration") :> S(replace))
    @@ (Col(prefix, "DHCP") :> S(dh))
    @@ (Col(prefix, "IP") :> S(addr[1]))
    @@ (Col(prefix, "Subnet") :> S(addr[2]))
    @@ (Col(prefix, "Gateway") :> S(addr[3]))
    @@ (Col(prefix, "DNS1") :> S(addr[4]))
    @@ (Col(prefix, "DNS2") :> S(addr[5]))

\* the cells an operator may type for one role
EditedCells(prefix) ==
    { RoleCells(prefix, net, replace, dh, addr) :
        net \in {"Net-A", "net-a"}, replace \in {"True", "False", "true"},
        dh \in {"True", "False"}, addr \in AddressCells }

\* f overridden by g on g's columns
Over(g, f) == g @@ f

\* the CSV files over a one-NIC tree: the exported row with one role retyped
OneNicFiles(tree) ==
    LET exported == CsvRow(Flatten(tree)[1])
    IN  { <<Over(cells, exported)>> :
            cells \in EditedCells("Failover") \cup EditedCells("Failover Test") }

ExportedRows == [i \in 1..4 |-> CsvRow(Flatten(FourNicTree)[i])]

\* rows an operator may put in a CSV file over the four-NIC tree
CandidateRows ==
    { \* vm1/nic0 and vm3/nic0 as exported
      ExportedRows[1], ExportedRows[4],
      \* vm1/nic0: another static address
      Over(("Failover IP" :> S("10.0.0.6")), ExportedRows[1]),
      \* vm1/nic1: switch the Failover role to DHCP
      Over(("Failover ShouldReplaceIpConfiguration" :> S("True"))
           @@ ("Failover DHCP" :> S("true")), ExportedRows[2]),
      \* vm2/nic0: an address without the replace-gate (invalid)
      Over(("Failover Test IP" :> S("10.0.0.7")), ExportedRows[3]),
      \* vm3/nic0: another network for the test role
      Over(("Failover Test Network" :> S("Net-C")), ExportedRows[4]),
      \* a NIC the server does not know
      Over(("NIC Identifier" :> S("nic9")) @@ ("Failover Network" :> S("Net-C")),
           ExportedRows[1]) }

RECURSIVE SeqsUpTo(_, _)
SeqsUpTo(set, n) ==
    IF n = 0 THEN {<<>>}
    ELSE LET shorter == SeqsUpTo(set, n - 1)
         IN  shorter \cup {Append(s, x) : s \in {q \in shorter : Len(q) = n - 1}, x \in set}

FourNicFiles == SeqsUpTo(CandidateRows, MaxRows)

----------------------------------------------------------------------------
(* main: one import pass *)

\* display_changes has printed nothing yet
NoTotal == [line |-> "", nics |-> 0, vpgs |-> 0]

\* the keys of a dict filled from `keys` in order: by first appearance
RECURSIVE InsertionOrder(_)
InsertionOrder(keys) ==
    IF keys = <<>> THEN <<>>
    ELSE IF keys[Len(keys)] \in {keys[i] : i \in 1..(Len(keys) - 1)}
         THEN InsertionOrder(SubSeq(keys, 1, Len(keys) - 1))
    ELSE Append(InsertionOrder(SubSeq(keys, 1, Len(keys) - 1)), keys[Len(keys)])

\* the keys of vpg_changes, of vpg_changes[vpg] and of vpg_changes[vpg][vm]
VpgsShown(chgs) == InsertionOrder([i \in DOMAIN chgs |-> chgs[i].vpg])

VmsShown(chgs, vpg) ==
    InsertionOrder([i \in DOMAIN SelectSeq(chgs, LAMBDA c : c.vpg = vpg) |->
                        SelectSeq(chgs, LAMBDA c : c.vpg = vpg)[i].vm])

NicsShown(chgs, vpg, vm) ==
    InsertionOrder([i \in DOMAIN SelectSeq(chgs, LAMBDA c : c.vpg = vpg /\ c.vm = vm) |->
                        SelectSeq(chgs, LAMBDA c : c.vpg = vpg /\ c.vm = vm)[i].nic])

\* vpg_changes[vpg][vm][nic]: the changes of the last item of that interface
ShownChanges(chgs, vpg, vm, nic) ==
    chgs[CHOOSE k \in DOMAIN chgs :
            /\ <<chgs[k].vpg, chgs[k].vm, chgs[k].nic>> = <<vpg, vm, nic>>
            /\ \A j \in DOMAIN chgs :
                  <<chgs[j].vpg, chgs[j].vm, chgs[j].nic>> = <<vpg, vm, nic>> => j <= k].changes

\* what the name `changes` is bound to when the total is printed: the loops
\* `for nic_id, changes in nic_changes.items()` rebind the parameter, and the
\* last turn of the last of them is on the last NIC of the last VM of the
\* last VPG of vpg_changes
LastBound(chgs) ==
    LET vpg == VpgsShown(chgs)[Len(VpgsShown(chgs))]
        vm == VmsShown(chgs, vpg)[Len(VmsShown(chgs, vpg))]
        nic == NicsShown(chgs, vpg, vm)[Len(NicsShown(chgs, vpg, vm))]
    IN  ShownChanges(chgs, vpg, vm, nic)

\* display_changes(client, changes): its last line, 'No changes found in the
\* CSV file.' or 'Total changes: {len(changes)} NIC(s) across
\* {len(vpg_changes)} VPG(s)'; the list it is given is only read
display_changes(chgs) ==
    IF chgs = <<>> THEN [line |-> "No changes found", nics |-> 0, vpgs |-> 0]
    ELSE [line |-> "Total changes", nics |-> Len(LastBound(chgs)),
          vpgs |-> Len(VpgsShown(chgs))]

NoNv == [a |-> Absent, b |-> Absent, na |-> Absent, nb |-> Absent,
         nna |-> Absent, nnb |-> Absent, step |-> "off"]

\* client.vpgs.read_exported_vpg_settings(timestamp, vpg_names): the VPGs
\* named by the filter, all of them when no filter is given
Exported(settings, filter) ==
    IF filter = <<>> THEN settings
    ELSE SelectSeq(settings, LAMBDA g : g.Name \in Range(filter))

\* the other programs of the repository before they are started
IdleJm == [pc |-> "idle", vpgs |-> <<>>, at |-> 0, held |-> NoDraft, calls |-> <<>>]
IdleEe ==
    [pc |-> "idle", lists |-> 0, listed |-> 0, export |-> 0, names |-> <<>>,
     settings |-> <<>>, reads |-> 0, peers |-> {}, at |-> 0, raised |-> "",
     calls |-> <<>>]
IdleEx == [pc |-> "idle", names |-> <<>>, export |-> 0, raised |-> "", calls |-> <<>>]
IdleCv == [pc |-> "idle", rows |-> <<>>, reads |-> 0, existing |-> {}, at |-> 0,
           failed |-> FALSE, calls |-> <<>>]
NoOthers == [removals |-> 0, runs |-> 0]

Start(tree, file, filter) ==
    /\ remote = tree
    /\ csv_header = fieldnames
    /\ csv_rows = file
    /\ vpg_names = filter
    /\ updated_settings = <<>>
    /\ current_settings = <<>>
    /\ changes = <<>>
    /\ pc = "read_csv"
    /\ calls = <<>>
    /\ drafts = <<>>
    /\ raised = ""
    /\ response = ""
    /\ nv = NoNv
    /\ printed = NoTotal
    /\ turn = 0
    /\ job = IdleJob
    /\ exports = <<Exported(tree, filter)>>
    /\ jm = IdleJm
    /\ ee = IdleEe
    /\ ex = IdleEx
    /\ cv = IdleCv
    /\ others = NoOthers
    /\ timestamp = 0
    /\ logged = <<>>

Init ==
    \/ \E shape \in NicShapes :
         \E file \in OneNicFiles(OneNicTree(shape)) :
            Start(OneNicTree(shape), file, <<>>)
    \/ \E file \in FourNicFiles, filter \in {<<>>, <<"vpgA">>} :
            Start(FourNicTree, file, filter)

\* read_csv_settings: every data row as a dict keyed by the header
ReadCsv ==
    /\ pc = "read_csv"
    /\ updated_settings' = csv_rows
    /\ pc' = "get_current"
    /\ UNCHANGED <<timestamp, logged, exports, jm, ee, ex, cv, others, job, turn, printed, remote, csv_header, csv_rows, current_settings, changes, calls,
                   drafts, raised, response, vpg_names, nv>>

\* get_current_settings, the export: the server keeps the settings of that
\* moment and returns their TimeStamp
ExportVpgSettings ==
    /\ pc = "get_current"
    /\ calls' = Append(calls, Call("export_vpg_settings", ""))
    /\ exports' = Append(exports, Exported(remote, vpg_names))
    /\ timestamp' = Len(exports) + 1
    /\ pc' = "read_exported"
    /\ UNCHANGED <<logged, jm, ee, ex, cv, others, job, turn, printed, remote, csv_header,
                   csv_rows, updated_settings, current_settings, changes, drafts,
                   raised, response, vpg_names, nv>>

\* get_current_settings, from the read of the export on: the export kept
\* under the timestamp is read back and flattened; a KeyError of the
\* extraction leaves through main's except Exception (exit status 1,
\* before compare_settings is called: pc "read_failed")
ReadExported ==
    /\ pc = "read_exported"
    /\ calls' = Append(calls, Call("read_exported_vpg_settings", ""))
    /\ IF FlattenRaises(exports[timestamp])
       THEN /\ raised' = "KeyError"
            /\ pc' = "read_failed"
            /\ UNCHANGED current_settings
       ELSE /\ current_settings' = Flatten(exports[timestamp])
            /\ pc' = "compare"
            /\ UNCHANGED raised
    /\ UNCHANGED <<timestamp, logged, exports, jm, ee, ex, cv, others, job, turn, printed,
                   remote, csv_header, csv_rows, updated_settings, changes, drafts,
                   response, vpg_names, nv>>

\* get_current_settings when the export gives no timestamp: it raises
ExportFails ==
    /\ pc = "get_current"
    /\ calls' = Append(calls, Call("export_vpg_settings", ""))
    /\ raised' = "Exception"
    /\ pc' = "exit_1"
    /\ UNCHANGED <<timestamp, logged, exports, jm, ee, ex, cv, others, job, turn, printed, remote, csv_header, csv_rows, updated_settings, current_settings,
                   changes, drafts, response, vpg_names, nv>>

\* main's call of compare_settings (l.549-554) up to the first client call
\* of display_changes: a ValueError is reported and main returns, any other
\* exception exits with status 1, and the list returned is assigned to
\* `changes`.  An empty list is reported by display_changes without a client
\* call and ends the pass (l.557-561); with a non-empty list display_changes
\* blocks in client.vms.list_vms (l.318) before it prints the total.
Compare ==
    /\ pc = "compare"
    /\ LET r == compare_settings(current_settings, updated_settings, csv_header)
       IN  /\ raised' = r.raised
           /\ changes' = r.changes
           /\ printed' = IF r.raised = "none" /\ r.changes = <<>>
                         THEN display_changes(r.changes) ELSE printed
           /\ pc' = CASE r.raised = "ValueError" -> "validation_error"
                      [] r.raised = "KeyError" -> "exit_1"
                      [] r.changes = <<>> -> "no_changes"
                      [] OTHER -> "display"
    /\ UNCHANGED <<timestamp, logged, exports, jm, ee, ex, cv, others, job, turn, remote,
                   csv_header, csv_rows, updated_settings, current_settings,
                   calls, drafts, response, vpg_names, nv>>

\* display_changes from its client.vms.list_vms calls on (l.318-335): the
\* VMs are shown, the total is printed and main reaches the prompt
DisplayChanges ==
    /\ pc = "display"
    /\ printed' = display_changes(changes)
    /\ pc' = "prompt"
    /\ UNCHANGED <<timestamp, logged, exports, jm, ee, ex, cv, others, job, turn, remote,
                   csv_header, csv_rows, updated_settings, current_settings, changes,
                   calls, drafts, raised, response, vpg_names, nv>>

IsYesLoose(answer) == answer \notin {"no", "n"}

\* response in ['yes', 'y']
IsYes(answer) == answer \in {"yes", "y"}

\* response in ['no', 'n']
IsNo(answer) == answer \in {"no", "n"}

Answers == {"yes", "Y", "YES", "no", "N", "maybe", ""}

\* one turn of the confirmation loop: input(...).lower(), then proceed on
\* yes/y, return on no/n, ask again on anything else
Answer ==
    /\ pc = "prompt"
    /\ \E typed \in Answers :
         /\ response' = Lower(typed)
         /\ pc' = IF IsYes(Lower(typed)) THEN "apply"
                  ELSE IF IsNo(Lower(typed)) THEN "cancelled"
                  ELSE "prompt"
    /\ UNCHANGED <<timestamp, logged, exports, jm, ee, ex, cv, others, job, turn, printed, remote, csv_header, csv_rows, updated_settings, current_settings,
                   changes, calls, drafts, raised, vpg_names, nv>>

\* main's call of update_vpg_settings (l.573-576), one client call at a
\* time: each call blocks, and the server may change while it does.

\* the VPG whose turn is under way, and its change items
TurnName == GroupNames(changes)[turn + 1]
TurnItems == ItemsOf(changes, TurnName)

\* update_vpg_settings' locals and the server, as the next call finds them
Locals ==
    [remote |-> remote, calls |-> calls, drafts |-> drafts, raised |-> "",
     held |-> job.held, before |-> job.before, settings |-> job.settings,
     located |-> job.located, logged |-> logged]

\* what a call leaves: a raise ends main with status 1, the end of the last
\* turn ends it normally, the end of another turn starts the next one
After(st, phase, turn_ends) ==
    /\ remote' = st.remote
    /\ calls' = st.calls
    /\ drafts' = st.drafts
    /\ raised' = st.raised
    /\ logged' = st.logged
    /\ pc' = IF st.raised # "" THEN "exit_1"
             ELSE IF turn_ends /\ turn + 1 = Len(GroupNames(changes)) THEN "done"
             ELSE "apply"
    /\ turn' = IF st.raised = "" /\ turn_ends THEN turn + 1 ELSE turn
    /\ job' = IF st.raised = "" /\ turn_ends THEN IdleJob
              ELSE [phase |-> IF st.raised = "" THEN phase ELSE job.phase,
                    held |-> st.held, before |-> st.before,
                    settings |-> st.settings, located |-> st.located]
    /\ UNCHANGED <<timestamp, exports, jm, ee, ex, cv, others, printed, csv_header, csv_rows,
                   updated_settings, current_settings, changes, response, vpg_names, nv>>

\* vpg_info = client.vpgs.list_vpgs(vpg_name=vpg_name); a VPG the server
\* does not list is logged and its turn is over
ListVpgs ==
    /\ pc = "apply" /\ turn < Len(GroupNames(changes)) /\ job.phase = "list"
    /\ \E st \in {IF VpgIndex(remote, TurnName) = 0
                   THEN LoggedVpg(list_vpgs(Locals, TurnName), TurnName)
                   ELSE list_vpgs(Locals, TurnName)} :
           After(st, "create", VpgIndex(remote, TurnName) = 0)

\* vpg_settings_id = client.vpgs.create_vpg_settings(...)
CreateVpgSettings ==
    /\ pc = "apply" /\ job.phase = "create"
    /\ \E st \in {create_vpg_settings(Locals, TurnName)} : After(st, "get", FALSE)

\* vpg_settings = client.vpgs.get_vpg_settings_by_id(vpg_settings_id), then
\* the loop `for change in vpg_change_list` on the local vpg_settings
GetVpgSettings ==
    /\ pc = "apply" /\ job.phase = "get"
    /\ \E st \in {PatchItems(get_vpg_settings_by_id(Locals, TurnName), TurnItems)} :
           After(st, "update", FALSE)

\* client.vpgs.update_vpg_settings(vpg_settings_id, vpg_settings)
UpdateVpgSettings ==
    /\ pc = "apply" /\ job.phase = "update"
    /\ \E st \in {SendDraft(Locals, TurnName)} : After(st, "commit", FALSE)

\* client.vpgs.commit_vpg(vpg_settings_id, vpg_name, sync=False): the turn
\* is over
CommitVpg ==
    /\ pc = "apply" /\ job.phase = "commit"
    /\ \E st \in {CommitDraft(Locals, TurnName)} : After(st, "list", TRUE)

Apply == ListVpgs \/ CreateVpgSettings \/ GetVpgSettings \/ UpdateVpgSettings \/ CommitVpg

Next ==
    \/ ReadCsv \/ ExportVpgSettings \/ ReadExported \/ ExportFails
    \/ Compare \/ DisplayChanges \/ Answer \/ Apply

Spec == Init /\ [][Next]_vars

----------------------------------------------------------------------------
(* Round trip: a tree is flattened, the flat records are compared with      *)
(* themselves and the resulting change list is applied.                     *)

\* a tree whose NICs have roles with entries missing
SparseTree ==
    <<Vpg("vpgA",
          <<Vm("vm1", <<Nic("nic0", EmptyRole, Role(EmptyHyp)),
                        Nic("nic1", Role(Hyp(S("Net-A"), Absent, AbsentIpc)),
                                    Net(S("Net-A"), PyFalse, NoIpc("obj")))>>),
            Vm("vm2", <<Nic("nic0", Net(S("Net-A"), PyTrue, IpOnlyIpc),
                                    Net(S("Net-B"), PyTrue, DhcpIpc))>>)>>)>>

RoundTripTrees ==
    {OneNicTree(shape) : shape \in NicShapes} \cup {FourNicTree, SparseTree}

RtInit ==
    /\ remote \in RoundTripTrees
    /\ csv_header = fieldnames
    /\ csv_rows = <<>>
    /\ vpg_names = <<>>
    /\ updated_settings = <<>>
    /\ current_settings = <<>>
    /\ changes = <<>>
    /\ pc = "rt_export"
    /\ calls = <<>>
    /\ drafts = <<>>
    /\ raised = ""
    /\ response = ""
    /\ nv = NoNv
    /\ printed = NoTotal
    /\ turn = 0
    /\ job = IdleJob
    /\ exports = <<>>
    /\ jm = IdleJm
    /\ ee = IdleEe
    /\ ex = IdleEx
    /\ cv = IdleCv
    /\ others = NoOthers
    /\ timestamp = 0
    /\ logged = <<>>

\* get_current_settings, the export
RtExport ==
    /\ pc = "rt_export"
    /\ calls' = Append(calls, Call("export_vpg_settings", ""))
    /\ exports' = Append(exports, Exported(remote, vpg_names))
    /\ timestamp' = Len(exports) + 1
    /\ pc' = "rt_read"
    /\ UNCHANGED <<logged, jm, ee, ex, cv, others, job, turn, printed, remote, csv_header,
                   csv_rows, updated_settings, current_settings, changes, drafts,
                   raised, response, vpg_names, nv>>

\* get_current_settings, from the read of the export on
RtRead ==
    /\ pc = "rt_read"
    /\ calls' = Append(calls, Call("read_exported_vpg_settings", ""))
    /\ IF FlattenRaises(exports[timestamp])
       THEN /\ raised' = "KeyError"
            /\ pc' = "rt_read_failed"
            /\ UNCHANGED current_settings
       ELSE /\ current_settings' = Flatten(exports[timestamp])
            /\ pc' = "rt_compare"
            /\ UNCHANGED raised
    /\ UNCHANGED <<timestamp, logged, exports, jm, ee, ex, cv, others, job, turn, printed,
                   remote, csv_header, csv_rows, updated_settings, changes, drafts,
                   response, vpg_names, nv>>

\* get_current_settings: the export returns no TimeStamp and it raises
RtExportFails ==
    /\ pc = "rt_export"
    /\ calls' = Append(calls, Call("export_vpg_settings", ""))
    /\ raised' = "Exception"
    /\ pc' = "rt_export_failed"
    /\ UNCHANGED <<timestamp, logged, exports, jm, ee, ex, cv, others, job, turn, printed, remote, csv_header, csv_rows, updated_settings,
                   current_settings, changes, drafts, response, vpg_names, nv>>

\* compare_settings(client, R, R)
RtCompare ==
    /\ pc = "rt_compare"
    /\ updated_settings' = current_settings
    /\ \E r \in {compare_settings(current_settings, current_settings, fieldnames)} :
           /\ raised' = r.raised
           /\ changes' = r.changes
           /\ pc' = IF r.raised = "none" THEN "rt_apply" ELSE "rt_raised"
    /\ UNCHANGED <<timestamp, logged, exports, jm, ee, ex, cv, others, job, turn, printed, remote, csv_header, csv_rows, current_settings, calls, drafts,
                   response, vpg_names, nv>>

\* update_vpg_settings(client, changes) on the change list of the self-comparison
RtApply ==
    /\ pc = "rt_apply"
    /\ \E st \in {update_vpg_settings(
                    [remote |-> remote, calls |-> calls, drafts |-> drafts, raised |-> "",
                     held |-> NoDraft, before |-> NoDraft, settings |-> NoDraft,
                     located |-> 0, logged |-> logged],
                    changes)} :
           /\ remote' = st.remote
           /\ calls' = st.calls
           /\ drafts' = st.drafts
           /\ raised' = IF st.raised = "" THEN "none" ELSE st.raised
           /\ logged' = st.logged
           /\ pc' = "rt_done"
    /\ UNCHANGED <<timestamp, exports, jm, ee, ex, cv, others, job, turn, printed, csv_header, csv_rows, updated_settings, current_settings, changes,
                   response, vpg_names, nv>>

RtNext == RtExport \/ RtRead \/ RtExportFails \/ RtCompare \/ RtApply

RoundTripSpec == RtInit /\ [][RtNext]_vars

----------------------------------------------------------------------------
(* normalize_value applied to pairs of values *)

NormValues ==
    { S(""), PyNone, S("None"), S("null"), S("NULL"), S("none"), S("NONE"),
      PyTrue, PyFalse, S("True"), S("true"), S("TRUE"), S("False"), S("false"),
      S("FALSE"), S("Net-A"), S("net-a"), S("10.0.0.5") }

NormInit ==
    /\ nv \in {[NoNv EXCEPT !.a = x, !.b = y, !.step = "input"] :
                  x \in NormValues, y \in NormValues}
    /\ printed = NoTotal
    /\ turn = 0
    /\ job = IdleJob
    /\ exports = <<>>
    /\ jm = IdleJm
    /\ ee = IdleEe
    /\ ex = IdleEx
    /\ cv = IdleCv
    /\ others = NoOthers
    /\ timestamp = 0
    /\ logged = <<>>
    /\ remote = <<>>
    /\ csv_header = fieldnames
    /\ csv_rows = <<>>
    /\ vpg_names = <<>>
    /\ updated_settings = <<>>
    /\ current_settings = <<>>
    /\ changes = <<>>
    /\ pc = "normalize"
    /\ calls = <<>>
    /\ drafts = <<>>
    /\ raised = ""
    /\ response = ""

Normalize ==
    /\ nv.step = "input"
    /\ nv' = [nv EXCEPT !.na = normalize_value(nv.a), !.nb = normalize_value(nv.b),
                        !.step = "normalized"]
    /\ UNCHANGED <<timestamp, logged, exports, jm, ee, ex, cv, others, job, turn, printed, remote, csv_header, csv_rows, updated_settings, current_settings,
                   changes, pc, calls, drafts, raised, response, vpg_names>>

NormalizeAgain ==
    /\ nv.step = "normalized"
    /\ nv' = [nv EXCEPT !.nna = normalize_value(nv.na), !.nnb = normalize_value(nv.nb),
                        !.step = "twice"]
    /\ UNCHANGED <<timestamp, logged, exports, jm, ee, ex, cv, others, job, turn, printed, remote, csv_header, csv_rows, updated_settings, current_settings,
                   changes, pc, calls, drafts, raised, response, vpg_names>>

NormNext == Normalize \/ NormalizeAgain

NormSpec == NormInit /\ [][NormNext]_vars

----------------------------------------------------------------------------
(* Properties.  The predicates below restate the rules in terms of the     *)
(* cells of a record, independently of the validator's own definitions.    *)

TrueTexts == {S("True"), S("true"), S("TRUE"), PyTrue}
EmptyCells == {S(""), PyNone}

GateIsTrue(row, prefix) == row[Col(prefix, "ShouldReplaceIpConfiguration")] \in TrueTexts
DhcpIsTrue(row, prefix) == row[Col(prefix, "DHCP")] \in TrueTexts
HasAddress(row, prefix) ==
    \E i \in DOMAIN AddressFields : row[Col(prefix, AddressFields[i])] \notin EmptyCells

BreaksGateRule(row, prefix) ==
    \/ ~GateIsTrue(row, prefix) /\ (DhcpIsTrue(row, prefix) \/ HasAddress(row, prefix))
    \/ GateIsTrue(row, prefix) /\ ~DhcpIsTrue(row, prefix) /\ ~HasAddress(row, prefix)

BreaksExclusivity(row, prefix) == DhcpIsTrue(row, prefix) /\ HasAddress(row, prefix)

BreaksARule(row) ==
    \E p \in DOMAIN Prefixes :
        BreaksGateRule(row, Prefixes[p]) \/ BreaksExclusivity(row, Prefixes[p])

\* compare_settings has been called and has ended (returned or raised)
Compared ==
    \/ pc \in {"validation_error", "no_changes", "display", "prompt", "apply", "cancelled",
               "done"}
    \/ pc = "exit_1" /\ raised \in {"KeyError", "TypeError", "AttributeError"}

\* compare_settings has returned a change list
CompareReturned ==
    \/ pc \in {"no_changes", "display", "prompt", "apply", "cancelled", "done"}
    \/ pc = "exit_1" /\ raised \in {"TypeError", "AttributeError"}

DraftOps == {"create_vpg_settings", "update_vpg_settings", "commit_vpg"}
DraftCalls(log) == {i \in DOMAIN log : log[i].op \in DraftOps}
WriteCalls(log) == {i \in DOMAIN log : log[i].op \in {"update_vpg_settings", "commit_vpg"}}

CurrentKeys == {Key(current_settings[i]) : i \in DOMAIN current_settings}
DesiredKeys == {Key(updated_settings[i]) : i \in DOMAIN updated_settings}
ItemKey(item) == <<item.vpg, item.vm, item.nic>>

\* C1: gate enforcement.  Once compare_settings has ended on a desired set in
\* which some record, for some role, has its replace-gate not true with dhcp
\* true or an address cell filled, or has its replace-gate true with dhcp
\* not true and all five address cells empty, it has raised the validation
\* error.
C1_GateEnforcement ==
    (Compared /\ \E i \in DOMAIN updated_settings, p \in DOMAIN Prefixes :
                     BreaksGateRule(updated_settings[i], Prefixes[p]))
        => (raised = "ValueError" /\ pc = "validation_error")

C1_Witness ==
    /\ pc = "validation_error"
    /\ \E i \in DOMAIN updated_settings :
         /\ ~GateIsTrue(updated_settings[i], "Failover Test")
         /\ ~DhcpIsTrue(updated_settings[i], "Failover Test")
         /\ HasAddress(updated_settings[i], "Failover Test")
    /\ \A i \in DOMAIN updated_settings, p \in DOMAIN Prefixes :
         ~BreaksExclusivity(updated_settings[i], Prefixes[p])

\* C2: exclusivity.  Once compare_settings has ended on a desired set in
\* which some record, for some role, has dhcp true and an address cell
\* filled, it has raised the validation error, whatever the replace-gate.
C2_Exclusivity ==
    (Compared /\ \E i \in DOMAIN updated_settings, p \in DOMAIN Prefixes :
                     BreaksExclusivity(updated_settings[i], Prefixes[p]))
        => (raised = "ValueError" /\ pc = "validation_error")

C2_Witness ==
    /\ pc = "validation_error"
    /\ \E i \in DOMAIN updated_settings :
         /\ GateIsTrue(updated_settings[i], "Failover")
         /\ DhcpIsTrue(updated_settings[i], "Failover")
         /\ updated_settings[i]["Failover IP"] = S("10.0.0.6")

\* C3: a desired record that breaks a validator rule ends the pass: no
\* create-draft, write-draft or commit-draft call is ever made, no draft is
\* patched and written, and no change list is produced, also when valid
\* records with changes precede the offending one.
C3_InvalidRecordAbortsPass ==
    (\E i \in DOMAIN csv_rows : BreaksARule(csv_rows[i]))
        => /\ DraftCalls(calls) = {}
           /\ drafts = <<>>
           /\ changes = <<>>
           /\ pc \in {"read_csv", "get_current", "read_exported", "read_failed", "compare",
                    "validation_error", "exit_1"}

C3_Witness ==
    /\ pc = "validation_error"
    /\ DraftCalls(calls) = {}
    /\ \E i, j \in DOMAIN updated_settings :
         /\ i < j
         /\ ~BreaksARule(updated_settings[i])
         /\ RowItems(current_settings, updated_settings[i], csv_header) # <<>>
         /\ BreaksARule(updated_settings[j])

\* C4: a create-draft, write-draft or commit-draft call is made only after
\* the operator has answered yes or y; an answer of no or n ends the pass
\* with none of those calls made and nothing follows it; any other answer
\* leaves the pass at the prompt with nothing else changed.
C4_ConfirmBeforeDraft ==
    [][ /\ DraftCalls(calls') # {} => response' \in {"yes", "y"}
        /\ (pc = "prompt" /\ response' \in {"no", "n"})
              => (pc' = "cancelled" /\ DraftCalls(calls') = {})
        /\ (pc = "prompt" /\ response' \notin {"yes", "y", "no", "n"})
              => (pc' = "prompt" /\ calls' = calls /\ remote' = remote
                  /\ drafts' = drafts /\ changes' = changes)
        /\ pc = "cancelled" => UNCHANGED vars ]_vars

C4_Witness ==
    /\ pc = "done"
    /\ response = "y"
    /\ DraftCalls(calls) # {}
    /\ drafts # <<>>

\* C5: every desired record whose identity triple is not in the current set
\* has a change item in which every non-identity field is reported with old
\* value empty and new value the desired value.
C5_AbsentTripleReportedAsNew ==
    CompareReturned =>
        \A i \in DOMAIN updated_settings :
            Key(updated_settings[i]) \notin CurrentKeys =>
                \E k \in DOMAIN changes :
                    /\ ItemKey(changes[k]) = Key(updated_settings[i])
                    /\ \A f \in DOMAIN updated_settings[i] \ Range(IdentityFields) :
                         \E e \in DOMAIN changes[k].changes :
                            changes[k].changes[e] =
                                [field |-> f, current |-> S(""),
                                 updated |-> updated_settings[i][f]]

\* the current record of a desired record whose triple is in the current set
CurrentOf(row) == CHOOSE c \in Range(current_settings) : Key(c) = Key(row)

DiffFields(row) ==
    {f \in DOMAIN row \ Range(IdentityFields) :
        normalize_value(CurrentOf(row)[f]) # normalize_value(row[f])}

ExpectedEntries(row) ==
    {[field |-> f, current |-> CurrentOf(row)[f], updated |-> row[f]] : f \in DiffFields(row)}

DiffRows ==
    SelectSeq(updated_settings,
              LAMBDA row : Key(row) \in CurrentKeys /\ DiffFields(row) # {})

\* C6: for a triple in both sets, a non-identity field is among the item's
\* changes exactly when the normalized current and desired values differ;
\* the old and new values recorded are the raw ones; identity fields are
\* never among the changed fields.  The change list is, in order, one item
\* for each desired record that has such a field.
C6_DiffByNormalizedValue ==
    CompareReturned =>
        /\ Len(changes) = Len(DiffRows)
        /\ \A k \in DOMAIN changes :
             /\ k \in DOMAIN DiffRows
             /\ ItemKey(changes[k]) = Key(DiffRows[k])
             /\ Range(changes[k].changes) = ExpectedEntries(DiffRows[k])
             /\ Len(changes[k].changes) = Cardinality(DiffFields(DiffRows[k]))
             /\ \A e \in DOMAIN changes[k].changes :
                  ~IsIdentityField(changes[k].changes[e].field)

C6_Witness ==
    /\ pc = "prompt"
    /\ \E k \in DOMAIN changes : \E e \in DOMAIN changes[k].changes :
         /\ changes[k].changes[e].current = PyNone
         /\ changes[k].changes[e].updated = S("255.255.0.0")
    /\ \E i \in DOMAIN updated_settings :
         /\ Key(updated_settings[i]) \in CurrentKeys
         /\ updated_settings[i]["Failover Network"] = S("net-a")
         /\ CurrentOf(updated_settings[i])["Failover Network"] = S("Net-A")

\* C7: every change item is for a triple of the desired set, and an
\* interface of a written draft whose triple is not in the desired set is
\* written exactly as it was read.
C7_OnlyDesiredTriples ==
    /\ Compared => \A k \in DOMAIN changes : ItemKey(changes[k]) \in DesiredKeys
    /\ \A d \in DOMAIN drafts :
         /\ Len(drafts[d].after.Vms) = Len(drafts[d].before.Vms)
         /\ \A v \in DOMAIN drafts[d].before.Vms :
              /\ Len(drafts[d].after.Vms[v].Nics) = Len(drafts[d].before.Vms[v].Nics)
              /\ \A n \in DOMAIN drafts[d].before.Vms[v].Nics :
                   <<drafts[d].vpg, S(drafts[d].before.Vms[v].VmIdentifier),
                     S(drafts[d].before.Vms[v].Nics[n].NicIdentifier)>> \notin DesiredKeys
                      => drafts[d].after.Vms[v].Nics[n] = drafts[d].before.Vms[v].Nics[n]

C7_Witness ==
    /\ pc = "done"
    /\ \E d \in DOMAIN drafts :
         /\ drafts[d].after # drafts[d].before
         /\ \E v \in DOMAIN drafts[d].before.Vms :
              \E n \in DOMAIN drafts[d].before.Vms[v].Nics :
                 <<drafts[d].vpg, S(drafts[d].before.Vms[v].VmIdentifier),
                   S(drafts[d].before.Vms[v].Nics[n].NicIdentifier)>> \notin DesiredKeys

RtCompared == pc \in {"rt_apply", "rt_raised", "rt_done"}

\* C8: idempotence.  Diffing a record set against itself (current = desired)
\* returns an empty change list.
C8_SelfDiffIsEmpty ==
    RtCompared => (raised = "none" /\ changes = <<>>)

\* C9: round trip.  Flattening a tree, diffing the records against
\* themselves and applying the result never changes the server's tree and
\* makes no write-draft or commit-draft call.
C9_RoundTripIsNoOp ==
    [][remote' = remote /\ WriteCalls(calls') = {} /\ drafts' = <<>>]_vars

C9_Witness ==
    /\ pc = "rt_done"
    /\ remote = FourNicTree
    /\ current_settings = Flatten(FourNicTree)
    /\ WriteCalls(calls) = {}

\* C10: normalization equivalence.  A boolean and its text in any letter
\* case have the same normalized form, and '', None, 'None' and 'null' are
\* normalized to ''.
C10_NormalizationEquivalence ==
    nv.step # "input" =>
        /\ (nv.a = PyTrue /\ nv.b \in {S("true"), S("True"), S("TRUE")}) => nv.na = nv.nb
        /\ (nv.a = PyFalse /\ nv.b \in {S("false"), S("False"), S("FALSE")}) => nv.na = nv.nb
        /\ nv.a \in {S(""), PyNone, S("None"), S("null")} => nv.na = S("")

C10_Witness ==
    /\ nv.step = "normalized"
    /\ nv.a = PyFalse
    /\ nv.b = S("FALSE")
    /\ nv.na = S("false")
    /\ nv.nb = S("false")

\* C11: text that is not boolean-like is compared with its letter case.  When
\* the current and the desired network reference of a record differ only in
\* letter case ('Net-A' against 'net-a'), their normalized forms differ and
\* the change list has an item of that record reporting the network field.
C11_CaseOnlyEditIsReported ==
    CompareReturned =>
        \A i \in DOMAIN updated_settings :
            (/\ Key(updated_settings[i]) \in CurrentKeys
             /\ updated_settings[i]["Failover Network"] = S("net-a")
             /\ CurrentOf(updated_settings[i])["Failover Network"] = S("Net-A"))
                => /\ normalize_value(S("net-a")) # normalize_value(S("Net-A"))
                   /\ \E k \in DOMAIN changes :
                        /\ ItemKey(changes[k]) = Key(updated_settings[i])
                        /\ \E e \in DOMAIN changes[k].changes :
                             changes[k].changes[e].field = "Failover Network"

RoleKeys == {"Failover", "FailoverTest"}
RoleKey(prefix) == IF prefix = "Failover" THEN "Failover" ELSE "FailoverTest"
OtherRoleKey(prefix) == IF prefix = "Failover" THEN "FailoverTest" ELSE "Failover"

\* the IpConfig of a role of a NIC (the absent one when the role or its
\* Hypervisor entry is null)
IpConfigOf(nic, role_key) == nic[role_key].Hypervisor.IpConfig

AddressesNull(ipc) == \A i \in DOMAIN IpKeys : ipc[IpKeys[i]] = PyNone

\* every role of the VPG with IsDhcp = true has its five address fields null
DhcpWithoutStatic(vpg) ==
    \A v \in DOMAIN vpg.Vms : \A n \in DOMAIN vpg.Vms[v].Nics : \A k \in RoleKeys :
        IpConfigOf(vpg.Vms[v].Nics[n], k).IsDhcp = PyTrue
            => AddressesNull(IpConfigOf(vpg.Vms[v].Nics[n], k))

NicKey(draft, v, n) ==
    <<draft.vpg, S(draft.before.Vms[v].VmIdentifier),
      S(draft.before.Vms[v].Nics[n].NicIdentifier)>>

\* C12: DHCP clears static.  A draft read with every IsDhcp = true role free
\* of address values is written with every IsDhcp = true role free of
\* address values.
C12_DhcpClearsStatic ==
    \A d \in DOMAIN drafts :
        DhcpWithoutStatic(drafts[d].before) => DhcpWithoutStatic(drafts[d].after)

\* C13: replace-gate write barrier.  For a role whose replace-gate is not
\* true in the desired record of an interface, the IpConfig written with
\* the draft is the IpConfig read with it.
C13_GateIsWriteBarrier ==
    \A d \in DOMAIN drafts :
        \A v \in DOMAIN drafts[d].before.Vms :
            \A n \in DOMAIN drafts[d].before.Vms[v].Nics :
                \A i \in DOMAIN updated_settings, p \in DOMAIN Prefixes :
                    (/\ Key(updated_settings[i]) = NicKey(drafts[d], v, n)
                     /\ ~GateIsTrue(updated_settings[i], Prefixes[p]))
                        => IpConfigOf(drafts[d].after.Vms[v].Nics[n], RoleKey(Prefixes[p]))
                             = IpConfigOf(drafts[d].before.Vms[v].Nics[n], RoleKey(Prefixes[p]))

RoleColumnSet(prefix) == {Col(prefix, RoleFieldNames[i]) : i \in DOMAIN RoleFieldNames}

\* the change items of the interface at Vms[v].Nics[n] of a draft
ItemsAt(draft, v, n) == {k \in DOMAIN changes : ItemKey(changes[k]) = NicKey(draft, v, n)}

\* C14: when every changed field of the items of an interface belongs to one
\* role, the other role of the interface and its identifier are written as
\* they were read.
C14_OtherRoleAsRead ==
    \A d \in DOMAIN drafts :
        \A v \in DOMAIN drafts[d].before.Vms :
            \A n \in DOMAIN drafts[d].before.Vms[v].Nics :
                \A p \in DOMAIN Prefixes :
                    (/\ ItemsAt(drafts[d], v, n) # {}
                     /\ \A k \in ItemsAt(drafts[d], v, n) :
                          \A e \in DOMAIN changes[k].changes :
                             changes[k].changes[e].field \in RoleColumnSet(Prefixes[p]))
                        => /\ drafts[d].after.Vms[v].Nics[n][OtherRoleKey(Prefixes[p])]
                                = drafts[d].before.Vms[v].Nics[n][OtherRoleKey(Prefixes[p])]
                           /\ drafts[d].after.Vms[v].Nics[n].NicIdentifier
                                = drafts[d].before.Vms[v].Nics[n].NicIdentifier

ChangeKeys == {ItemKey(changes[k]) : k \in DOMAIN changes}

\* C15: patch isolation.  Applying the change list leaves every interface
\* that no change item names as it was on the server: in the same VM, in
\* other VMs and in other VPGs.
C15_PatchIsolation ==
    [][pc = "apply" =>
        /\ Len(remote') = Len(remote)
        /\ \A g \in DOMAIN remote :
             /\ remote'[g].Name = remote[g].Name
             /\ Len(remote'[g].Vms) = Len(remote[g].Vms)
             /\ \A v \in DOMAIN remote[g].Vms :
                  /\ remote'[g].Vms[v].VmIdentifier = remote[g].Vms[v].VmIdentifier
                  /\ Len(remote'[g].Vms[v].Nics) = Len(remote[g].Vms[v].Nics)
                  /\ \A n \in DOMAIN remote[g].Vms[v].Nics :
                       <<S(remote[g].Name), S(remote[g].Vms[v].VmIdentifier),
                         S(remote[g].Vms[v].Nics[n].NicIdentifier)>> \notin ChangeKeys
                          => remote'[g].Vms[v].Nics[n] = remote[g].Vms[v].Nics[n]]_vars

C15_Witness ==
    /\ pc = "done"
    /\ remote # FourNicTree
    /\ Len(remote) = 2
    /\ ChangeKeys = {<<S("vpgA"), S("vm1"), S("nic0")>>}
    /\ remote[1].Vms[1].Nics[2] = FourNicTree[1].Vms[1].Nics[2]
    /\ remote[2] = FourNicTree[2]

----------------------------------------------------------------------------
(* The import pass on a server that is shared: while the import runs, an    *)
(* operator removes a NIC, a VM or a VPG, and the repository's other        *)
(* programs run against the same server, one client call at a time.        *)

\* the removals an operator makes while the import runs
MaxRemovals == 1
\* the runs of other programs started while the import runs
MaxRuns == 1

\* the four-NIC tree with a test role in vm2 whose Hypervisor entry is None
DriftTree == [FourNicTree EXCEPT ![1].Vms[2].Nics[1].FailoverTest = Role(NullHyp)]

\* the server's settings after vm1/nic1, vm2 or vpgB is removed
DropNic(settings) == [settings EXCEPT ![1].Vms[1].Nics = <<@[1]>>]
DropVm(settings) == [settings EXCEPT ![1].Vms = <<@[1]>>]
DropVpg(settings) == SelectSeq(settings, LAMBDA g : g.Name # "vpgB")

WithoutNic == DropNic(DriftTree)
WithoutVm == DropVm(DriftTree)
WithoutVpg == DropVpg(DriftTree)

DriftExported == [i \in 1..4 |-> CsvRow(Flatten(DriftTree)[i])]

\* one row per NIC of the tree, as exported and then edited: another network
\* for each (for vm2's NIC in the role whose Hypervisor entry is None), and
\* for some an address, the replace-gate and the DHCP flag
DriftRows ==
    << Over(("Failover Network" :> S("Net-C")) @@ ("Failover IP" :> S("10.0.0.6")),
            DriftExported[1]),
       Over(("Failover Network" :> S("Net-C"))
              @@ ("Failover ShouldReplaceIpConfiguration" :> S("True"))
              @@ ("Failover DHCP" :> S("True")),
            DriftExported[2]),
       Over(("Failover Test Network" :> S("Net-C")), DriftExported[3]),
       Over(("Failover Test Network" :> S("Net-C")) @@ ("Failover DHCP" :> S("False"))
              @@ ("Failover IP" :> S("10.0.0.9")),
            DriftExported[4]) >>

\* the rows of a list at the positions of a set, in the order of the list
RECURSIVE RowsAt(_, _, _)
RowsAt(rows, positions, i) ==
    IF i > Len(rows) THEN <<>>
    ELSE (IF i \in positions THEN <<rows[i]>> ELSE <<>>) \o RowsAt(rows, positions, i + 1)

\* the files of at most MaxRows of these rows, in the order of the export
DriftFiles ==
    { RowsAt(DriftRows, positions, 1) :
        positions \in {chosen \in SUBSET DOMAIN DriftRows : Cardinality(chosen) <= MaxRows} }

DriftInit == \E file \in DriftFiles : Start(DriftTree, file, <<>>)

\* the variables of the import: a step of another program leaves them alone
import_vars ==
    <<csv_header, csv_rows, updated_settings, current_settings, changes, pc, calls, drafts,
      raised, response, vpg_names, nv, printed, turn, job, timestamp, logged>>

\* an operator removes a NIC, a VM or a VPG from the server (the deletion
\* vpg_setting_export_example_enhanced.py asks for at l.453, or any other):
\* at any moment of the import
Drift ==
    /\ others.removals < MaxRemovals
    /\ remote' \in {DropNic(remote), DropVm(remote), DropVpg(remote)} \ {remote}
    /\ others' = [others EXCEPT !.removals = @ + 1]
    /\ UNCHANGED <<exports, jm, ee, ex, cv, import_vars>>

\* another program is started
Started == [others EXCEPT !.runs = @ + 1]

----------------------------------------------------------------------------
(* vpg_settings_journal_modifier.py, run against the same server: main()   *)
(* one client call at a time.  It waits at input() between                 *)
(* get_vpg_settings_by_id and update_vpg_settings, with the draft it read. *)

\* the days and hours typed at l.87-88
JournalAnswers == {<<2, 0>>}

\* the journal modifier's locals and the server, as its next call finds them
JmLocals ==
    [remote |-> remote, calls |-> jm.calls, drafts |-> <<>>, raised |-> "",
     held |-> jm.held, before |-> NoDraft, settings |-> jm.held, located |-> 0,
     logged |-> <<>>]

\* main has ended: its locals are gone, the calls it made stay made
JmEnded(how, log) == [IdleJm EXCEPT !.pc = how, !.calls = log]

\* the next VPG of `for vpg in vpgs`, or the end of main
JmNextVpg(log) ==
    IF jm.at = Len(jm.vpgs) THEN JmEnded("end", log)
    ELSE [pc |-> "create", vpgs |-> jm.vpgs, at |-> jm.at + 1, held |-> NoDraft, calls |-> log]

\* vpgs = client.vpgs.list_vpgs(); no VPG ends main
JmList ==
    /\ jm.pc = "idle"
    /\ others.runs < MaxRuns
    /\ others' = Started
    /\ jm' = IF remote = <<>>
             THEN JmEnded("exit_0", Append(jm.calls, Call("list_vpgs", PyNone)))
             ELSE [pc |-> "create",
                   vpgs |-> [g \in DOMAIN remote |-> S(remote[g].Name)],
                   at |-> 1,
                   held |-> NoDraft,
                   calls |-> Append(jm.calls, Call("list_vpgs", PyNone))]
    /\ UNCHANGED <<remote, exports, ee, ex, cv, import_vars>>

\* vpg_settings_id = client.vpgs.create_vpg_settings(...); main has no
\* handler, a failed call ends it
JmCreate ==
    /\ jm.pc = "create"
    /\ \E st \in {create_vpg_settings(JmLocals, jm.vpgs[jm.at])} :
           jm' = IF st.raised # "" THEN JmEnded("exit_1", st.calls)
                 ELSE [jm EXCEPT !.pc = "get", !.held = st.held, !.calls = st.calls]
    /\ UNCHANGED <<remote, exports, ee, ex, cv, others, import_vars>>

\* vpg_settings = client.vpgs.get_vpg_settings_by_id(vpg_settings_id); the
\* settings are shown and main waits at the prompt
JmGet ==
    /\ jm.pc = "get"
    /\ \E st \in {get_vpg_settings_by_id(JmLocals, jm.vpgs[jm.at])} :
           jm' = [jm EXCEPT !.pc = "prompt", !.calls = st.calls]
    /\ UNCHANGED <<remote, exports, ee, ex, cv, others, import_vars>>

\* an answer other than y at l.80 or at l.107: nothing is sent
JmSkip ==
    /\ jm.pc = "prompt"
    /\ jm' = JmNextVpg(jm.calls)
    /\ UNCHANGED <<remote, exports, ee, ex, cv, others, import_vars>>

\* y, days, hours, y (or --journal_days): JournalHistoryInHours is set in
\* the draft read and client.vpgs.update_vpg_settings sends the whole draft
JmUpdate ==
    /\ jm.pc = "prompt"
    /\ \E typed \in JournalAnswers :
         \E st \in {SendDraft(
                      [JmLocals EXCEPT !.settings.JournalHistoryInHours =
                                          typed[1] * HoursPerDay + typed[2]],
                      jm.vpgs[jm.at])} :
           jm' = [jm EXCEPT !.pc = "commit", !.held = st.held, !.calls = st.calls]
    /\ UNCHANGED <<remote, exports, ee, ex, cv, others, import_vars>>

\* client.vpgs.commit_vpg(vpg_settings_id, vpg_name, sync=False)
JmCommit ==
    /\ jm.pc = "commit"
    /\ \E st \in {CommitDraft(JmLocals, jm.vpgs[jm.at])} :
           /\ remote' = st.remote
           /\ jm' = IF st.raised # "" THEN JmEnded("exit_1", st.calls)
                    ELSE JmNextVpg(st.calls)
    /\ UNCHANGED <<exports, ee, ex, cv, others, import_vars>>

JournalModifier == JmList \/ JmCreate \/ JmGet \/ JmSkip \/ JmUpdate \/ JmCommit

----------------------------------------------------------------------------
(* vpg_setting_export_example_enhanced.py, run against the same server: it  *)
(* lets the operator pick an export, reads it, replaces the networks the    *)
(* peer site does not have, and imports the settings back.                  *)

\* the times the operator asks for the list of exports again (choice 1)
MaxExportLists == 1

\* --vpg_names
EeNames == {<<"vpgB">>, <<"vpgA", "vpgC">>}

\* the networks of the peer site (get_virtualization_site_networks)
PeerNetworkSets == {{S("Net-A"), S("Net-B")}, {S("Net-B")}}

\* the answer q at select_resource's prompt
TypedQ == <<"typed", "q">>

\* the positions <<VPG, VM, NIC>> of a settings list, in the order of the loops
EePositions(settings) ==
    LET Of(g, v) == [n \in DOMAIN settings[g].Vms[v].Nics |-> <<g, v, n>>]
        RECURSIVE Vms(_, _)
        Vms(g, v) == IF v > Len(settings[g].Vms) THEN <<>> ELSE Of(g, v) \o Vms(g, v + 1)
        RECURSIVE Vpgs(_)
        Vpgs(g) == IF g > Len(settings) THEN <<>> ELSE Vms(g, 1) \o Vpgs(g + 1)
    IN  Vpgs(1)

\* the network checks of the loop at l.349-432 are numbered in its order:
\* check 2p-1 is on the Failover role of the NIC at position p, check 2p on
\* its FailoverTest role
CheckNic(settings, at) ==
    LET p == EePositions(settings)[(at + 1) \div 2]
    IN  settings[p[1]].Vms[p[2]].Nics[p[3]]
CheckRole(at) == IF at % 2 = 1 THEN "Failover" ELSE "FailoverTest"
Checks(settings) == 2 * Len(EePositions(settings))

\* nic[role]['Hypervisor'].get('NetworkIdentifier') raises: the exception's name
ReadRaises(role) ==
    IF role.kind = "absent" THEN "KeyError"
    ELSE IF role.kind = "null" THEN "TypeError"
    ELSE IF role.Hypervisor.kind = "absent" THEN "KeyError"
    ELSE IF role.Hypervisor.kind = "null" THEN "AttributeError"
    ELSE ""

\* check_vpg_network reaches select_resource: the network is set and is not
\* one of the peer site's
Prompts(role, peers) ==
    /\ ReadRaises(role) = ""
    /\ Truthy(role.Hypervisor.NetworkIdentifier)
    /\ role.Hypervisor.NetworkIdentifier \notin peers

\* the loop from check `at` on, up to the next prompt of select_resource:
\* a check that does not prompt leaves the settings as they are or raises
RECURSIVE NextPrompt(_, _, _)
NextPrompt(settings, at, peers) ==
    IF at > Checks(settings) THEN [at |-> at, raised |-> ""]
    ELSE IF ReadRaises(CheckNic(settings, at)[CheckRole(at)]) # ""
        THEN [at |-> at, raised |-> ReadRaises(CheckNic(settings, at)[CheckRole(at)])]
    ELSE IF Prompts(CheckNic(settings, at)[CheckRole(at)], peers)
        THEN [at |-> at, raised |-> ""]
    ELSE NextPrompt(settings, at + 1, peers)

\* the settings after the operator's answer to the prompt of check `at`:
\* the network picked is written
Picked(settings, at, pick) ==
    LET p == EePositions(settings)[(at + 1) \div 2]
    IN  [settings EXCEPT
           ![p[1]].Vms[p[2]].Nics[p[3]][CheckRole(at)].Hypervisor.NetworkIdentifier = pick]

\* client.vpgs.import_vpg_settings when the server takes the settings: each
\* VPG of the file has the file's settings, a removed one is there again
RECURSIVE Imported(_, _)
Imported(settings, file) ==
    IF file = <<>> THEN settings
    ELSE Imported(IF VpgIndex(settings, S(Head(file).Name)) = 0
                  THEN Append(settings, Head(file))
                  ELSE [settings EXCEPT ![VpgIndex(settings, S(Head(file).Name))] = Head(file)],
                  Tail(file))

\* main has ended: its locals are gone, the calls it made stay made
EeEnded(how, log) == [IdleEe EXCEPT !.pc = how, !.calls = log]

\* main goes on from the check `at` of the loop: to the next prompt, to the
\* end of the loop, or out through `except Exception` (exit status 1)
EeLoop(settings, at, log) ==
    LET next == NextPrompt(settings, at, ee.peers)
    IN  IF next.raised # ""
        THEN [EeEnded("exit_1", log) EXCEPT !.raised = next.raised]
        ELSE [ee EXCEPT !.pc = IF next.at > Checks(settings) THEN "rewritten" ELSE "pick",
                        !.settings = settings, !.at = next.at, !.calls = log]

\* exports = client.vpgs.list_exported_vpg_settings(), at the start of main
\* and again after choice 1; no export ends main with status 1
EeList ==
    /\ \E names \in EeNames :
         \E listed \in {Append(ee.calls, Call("list_exported_vpg_settings", ""))} :
           /\ \/ /\ ee.pc = "idle"
                 /\ others.runs < MaxRuns
                 /\ others' = Started
              \/ /\ ee.pc = "list"
                 /\ names = ee.names
                 /\ UNCHANGED others
           /\ ee' = IF exports = <<>> THEN EeEnded("exit_1", listed)
                    ELSE [ee EXCEPT !.pc = "select", !.names = names,
                                    !.listed = Len(exports), !.calls = listed]
    /\ UNCHANGED <<remote, exports, jm, ex, cv, import_vars>>

\* the operator answers q at the selection: sys.exit(0)
EeQuit ==
    /\ ee.pc = "select"
    /\ ee' = EeEnded("exit_0", ee.calls)
    /\ UNCHANGED <<remote, exports, jm, ex, cv, others, import_vars>>

\* the operator selects one of the exports listed:
\* export_vpgs = client.vpgs.list_vpgs_from_exported_settings(...)
EeSelect ==
    /\ ee.pc = "select"
    /\ \E k \in 1..ee.listed :
         ee' = [ee EXCEPT !.pc = "selected", !.export = k,
                          !.calls = Append(@, Call("list_vpgs_from_exported_settings", ""))]
    /\ UNCHANGED <<remote, exports, jm, ex, cv, others, import_vars>>

\* missing_vpgs: the names asked for that the selected export does not hold
MissingVpgs == {name \in Range(ee.names) :
                  \A g \in DOMAIN exports[ee.export] : exports[ee.export][g].Name # name}

\* choice 1 when requested VPGs are missing: the selection loop starts again
EeAgain ==
    /\ ee.pc = "selected"
    /\ MissingVpgs # {}
    /\ ee.lists < MaxExportLists
    /\ ee' = [ee EXCEPT !.pc = "list", !.lists = @ + 1, !.export = 0]
    /\ UNCHANGED <<remote, exports, jm, ex, cv, others, import_vars>>

\* choice 3 when requested VPGs are missing, or an answer other than y to
\* 'Do you want to proceed with this export?': sys.exit(0)
EeLeave ==
    /\ ee.pc = "selected"
    /\ ee' = EeEnded("exit_0", ee.calls)
    /\ UNCHANGED <<remote, exports, jm, ex, cv, others, import_vars>>

\* y (after choice 2 when VPGs are missing):
\* export_settings = client.vpgs.read_exported_vpg_settings(timestamp, vpg_names)
EeReadExport ==
    /\ ee.pc = "selected"
    /\ ee' = [ee EXCEPT !.pc = "sites",
                        !.settings = Exported(exports[ee.export], ee.names),
                        !.calls = Append(@, Call("read_exported_vpg_settings", ""))]
    /\ UNCHANGED <<remote, exports, jm, ex, cv, others, import_vars>>

\* the reads of l.317-343
SiteReads ==
    <<Call("get_virtualization_sites", ""), Call("get_local_site", ""),
      Call("get_virtualization_site_datastores", ""), Call("get_virtualization_site_hosts", ""),
      Call("get_virtualization_site_folders", ""), Call("get_virtualization_site_networks", "")>>

\* one read of the peer site's resources; after the last one, which gives
\* the peer site's networks, the loop over the settings starts
EeSiteRead ==
    /\ ee.pc = "sites"
    /\ IF ee.reads + 1 < Len(SiteReads)
       THEN ee' = [ee EXCEPT !.reads = @ + 1, !.calls = Append(@, SiteReads[ee.reads + 1])]
       ELSE \E peers \in PeerNetworkSets :
              \E next \in {NextPrompt(ee.settings, 1, peers)} :
                ee' = IF next.raised # ""
                      THEN [EeEnded("exit_1", Append(ee.calls, SiteReads[ee.reads + 1]))
                               EXCEPT !.raised = next.raised]
                      ELSE [ee EXCEPT
                              !.pc = IF next.at > Checks(ee.settings)
                                     THEN "rewritten" ELSE "pick",
                              !.reads = @ + 1, !.peers = peers, !.at = next.at,
                              !.calls = Append(@, SiteReads[ee.reads + 1])]
    /\ UNCHANGED <<remote, exports, jm, ex, cv, others, import_vars>>

\* the operator's answer at select_resource for the network of one role:
\* a network of the peer site, which is written, or q, on which
\* select_resource returns None and its .get raises
EePick ==
    /\ ee.pc = "pick"
    /\ \E pick \in ee.peers \cup {TypedQ} :
         ee' = IF pick = TypedQ
               THEN [EeEnded("exit_1", ee.calls) EXCEPT !.raised = "AttributeError"]
               ELSE EeLoop(Picked(ee.settings, ee.at, pick), ee.at + 1, ee.calls)
    /\ UNCHANGED <<remote, exports, jm, ex, cv, others, import_vars>>

\* an answer other than y at l.447: sys.exit(1)
EeDecline ==
    /\ ee.pc = "rewritten"
    /\ ee' = EeEnded("exit_1", ee.calls)
    /\ UNCHANGED <<remote, exports, jm, ex, cv, others, import_vars>>

\* import_result = client.vpgs.import_vpg_settings(export_settings): the
\* server takes the settings or reports the import as failed
EeImport ==
    /\ ee.pc = "rewritten"
    /\ remote' \in {remote, Imported(remote, ee.settings)}
    /\ ee' = EeEnded("end", Append(ee.calls, Call("import_vpg_settings", "")))
    /\ UNCHANGED <<exports, jm, ex, cv, others, import_vars>>

ExportExample ==
    \/ EeList \/ EeQuit \/ EeSelect \/ EeAgain \/ EeLeave \/ EeReadExport
    \/ EeSiteRead \/ EePick \/ EeDecline \/ EeImport

----------------------------------------------------------------------------
(* bulk_vpg_actions/export_vpg_settings_nics_to_csv.py, run against the     *)
(* same server: an export, the read of it, the CSV file.                    *)

\* --vpg_names: none, or one VPG
ExNames == {<<>>, <<"vpgA">>}

\* main has ended
ExEnded(how, log) == [IdleEx EXCEPT !.pc = how, !.calls = log]

\* export_result = client.vpgs.export_vpg_settings(vpg_names): the server
\* keeps the settings of that moment; a result without TimeStamp ends main
\* with status 1
ExExport ==
    /\ ex.pc = "idle"
    /\ others.runs < MaxRuns
    /\ others' = Started
    /\ \E names \in ExNames :
         \/ /\ exports' = Append(exports, Exported(remote, names))
            /\ ex' = [ex EXCEPT !.pc = "read", !.names = names,
                                !.export = Len(exports) + 1,
                                !.calls = Append(@, Call("export_vpg_settings", ""))]
         \/ /\ exports' = exports
            /\ ex' = ExEnded("exit_1", Append(ex.calls, Call("export_vpg_settings", "")))
    /\ UNCHANGED <<remote, jm, ee, cv, import_vars>>

\* export_settings = client.vpgs.read_exported_vpg_settings(timestamp,
\* vpg_names), then extract_nic_settings and the CSV file; a KeyError of the
\* extraction leaves through `except Exception` (exit status 1)
ExRead ==
    /\ ex.pc = "read"
    /\ ex' = IF FlattenRaises(exports[ex.export])
             THEN [ExEnded("exit_1", Append(ex.calls, Call("read_exported_vpg_settings", "")))
                      EXCEPT !.raised = "KeyError"]
             ELSE ExEnded("end", Append(ex.calls, Call("read_exported_vpg_settings", "")))
    /\ UNCHANGED <<remote, exports, jm, ee, cv, others, import_vars>>

ExportScript == ExExport \/ ExRead

----------------------------------------------------------------------------
(* bulk_vpg_actions/create_vpgs_from_csv.py, run against the same server:   *)
(* it validates the rows of its CSV file, creates the VPG, adds the VMs     *)
(* and deletes the VPG again when a VM could not be added.                  *)

\* the CSV files: the rows of one VPG, each with its VM
CvFiles == { <<[vpg |-> "vpgB", vm |-> "vm3"]>>, <<[vpg |-> "vpgC", vm |-> "vm4"]>> }

\* the reads of validate_vpg_and_vms after list_vpgs (l.158-160)
CvReads ==
    <<Call("list_vms", ""), Call("get_local_site", ""),
      Call("get_virtualization_site_vms", "")>>

\* main has ended
CvEnded(how, log) == [IdleCv EXCEPT !.pc = how, !.calls = log]

\* VPG name of the file
CvName == cv.rows[1].vpg

\* the settings of a VPG just created, and of a VM just added to a VPG
CreatedVpg(name) == Vpg(name, <<>>)
AddedVm(vm_id) == Vm(vm_id, <<Nic("nic0", NullRole, NullRole)>>)

\* existing_vpgs = {... for vpg in client.vpgs.list_vpgs()}
CvList ==
    /\ cv.pc = "idle"
    /\ others.runs < MaxRuns
    /\ others' = Started
    /\ \E file \in CvFiles :
         cv' = [cv EXCEPT !.pc = "reads", !.rows = file,
                          !.existing = {remote[g].Name : g \in DOMAIN remote},
                          !.calls = Append(@, Call("list_vpgs", PyNone))]
    /\ UNCHANGED <<remote, exports, jm, ee, ex, import_vars>>

\* list_vms, get_local_site, get_virtualization_site_vms, one at a time;
\* after the last one the rows are validated: a VPG that exists already or
\* a VM that is neither eligible nor protected ends main with status 1,
\* otherwise the summary is printed and main waits at the prompt
CvRead ==
    /\ cv.pc = "reads"
    /\ \E log \in {Append(cv.calls, CvReads[cv.reads + 1])} :
         IF cv.reads + 1 < Len(CvReads)
         THEN cv' = [cv EXCEPT !.reads = @ + 1, !.calls = log]
         ELSE \E known \in BOOLEAN :
                cv' = IF CvName \in cv.existing \/ ~known
                      THEN CvEnded("exit_1", log)
                      ELSE [cv EXCEPT !.pc = "prompt", !.reads = @ + 1, !.calls = log]
    /\ UNCHANGED <<remote, exports, jm, ee, ex, others, import_vars>>

\* an answer other than y at l.243-248: sys.exit(0)
CvCancel ==
    /\ cv.pc = "prompt"
    /\ cv' = CvEnded("exit_0", cv.calls)
    /\ UNCHANGED <<remote, exports, jm, ee, ex, others, import_vars>>

\* y, then vpg_id = client.vpgs.create_vpg(...): the server has the new VPG,
\* or the call raises (always when the name is taken by then), which main
\* logs before it goes to the next VPG of the file
CvCreate ==
    /\ cv.pc = "prompt"
    /\ \E log \in {Append(cv.calls, Call("create_vpg", S(CvName)))} :
         \/ /\ VpgIndex(remote, S(CvName)) = 0
            /\ remote' = Append(remote, CreatedVpg(CvName))
            /\ cv' = [cv EXCEPT !.pc = "add", !.at = 1, !.calls = log]
         \/ /\ remote' = remote
            /\ cv' = CvEnded("end", log)
    /\ UNCHANGED <<exports, jm, ee, ex, others, import_vars>>

\* client.vpgs.add_vm_to_vpg(vpg_name, vm_list_payload=vm_payload) for one
\* row: the VM is in the VPG, or the call raises (always when the VPG is
\* gone), which is caught and noted; after the last row a failure leads to
\* the deletion of the VPG
CvAddVm ==
    /\ cv.pc = "add"
    /\ \E log \in {Append(cv.calls, Call("add_vm_to_vpg", S(CvName)))} :
         \/ /\ VpgIndex(remote, S(CvName)) # 0
            /\ remote' = [remote EXCEPT ![VpgIndex(remote, S(CvName))].Vms =
                                            Append(@, AddedVm(cv.rows[cv.at].vm))]
            /\ cv' = IF cv.at < Len(cv.rows)
                     THEN [cv EXCEPT !.at = @ + 1, !.calls = log]
                     ELSE IF cv.failed THEN [cv EXCEPT !.pc = "delete", !.calls = log]
                     ELSE CvEnded("end", log)
         \/ /\ remote' = remote
            /\ cv' = IF cv.at < Len(cv.rows)
                     THEN [cv EXCEPT !.at = @ + 1, !.failed = TRUE, !.calls = log]
                     ELSE [cv EXCEPT !.pc = "delete", !.failed = TRUE, !.calls = log]
    /\ UNCHANGED <<exports, jm, ee, ex, others, import_vars>>

\* the server's settings without the VPG of a name
WithoutName(settings, name) == SelectSeq(settings, LAMBDA g : g.Name # name)

\* client.vpgs.delete_vpg(vpg_name) after a failed add (l.337): the VPG is
\* gone, or the call raises, which is logged
CvDelete ==
    /\ cv.pc = "delete"
    /\ remote' \in {remote, WithoutName(remote, CvName)}
    /\ cv' = CvEnded("end", Append(cv.calls, Call("delete_vpg", S(CvName))))
    /\ UNCHANGED <<exports, jm, ee, ex, others, import_vars>>

\* Ctrl+C while the VMs are added (l.353-362): the VPG created is deleted
\* and main exits with status 0
CvInterrupt ==
    /\ cv.pc = "add"
    /\ remote' \in {remote, WithoutName(remote, CvName)}
    /\ cv' = CvEnded("exit_0", Append(cv.calls, Call("delete_vpg", S(CvName))))
    /\ UNCHANGED <<exports, jm, ee, ex, others, import_vars>>

CreateVpgs == CvList \/ CvRead \/ CvCancel \/ CvCreate \/ CvAddVm \/ CvDelete \/ CvInterrupt

----------------------------------------------------------------------------
\* the import on a server that an operator and the repository's other
\* programs use at the same time
DriftNext ==
    Next \/ Drift \/ JournalModifier \/ ExportExample \/ ExportScript \/ CreateVpgs

DriftSpec == DriftInit /\ [][DriftNext]_vars

\* update_vpg_settings was called and has ended
Applied == response \in {"yes", "y"} /\ pc \in {"done", "exit_1"}

VpgOps ==
    {"list_vpgs", "create_vpg_settings", "get_vpg_settings_by_id",
     "update_vpg_settings", "commit_vpg"}

\* the operations called for a VPG
CallsFor(name) ==
    {calls[i].op : i \in {j \in DOMAIN calls : calls[j].op \in VpgOps /\ calls[j].vpg = name}}

\* the identity triples of the NICs of a draft as it was read
DraftKeys(draft) ==
    UNION { { NicKey(draft, v, n) : n \in DOMAIN draft.before.Vms[v].Nics } :
            v \in DOMAIN draft.before.Vms }

DraftsOf(name) == {d \in DOMAIN drafts : drafts[d].vpg = name}

\* the lookup of the item's VPG, VM or NIC failed in the VPG's turn: the
\* server did not list the VPG, or the draft read lacked the VM or the NIC
NotFound(item) ==
    \/ CallsFor(item.vpg) = {"list_vpgs"}
    \/ \E d \in DraftsOf(item.vpg) : ItemKey(item) \notin DraftKeys(drafts[d])

\* C16 as stated: when the VPG, VM or NIC of a change item is not found, the
\* pass fails and the item's VPG is neither written nor committed.
C16_LookupFailureFailsPass ==
    Applied =>
        \A k \in DOMAIN changes :
            NotFound(changes[k])
                => /\ pc = "exit_1"
                   /\ CallsFor(changes[k].vpg) \cap {"update_vpg_settings", "commit_vpg"} = {}

\* the NIC of a change item in a VPG's settings
HasNic(tree, item) ==
    /\ FindVm(tree.Vms, item.vm) # 0
    /\ FindNic(tree.Vms[FindVm(tree.Vms, item.vm)].Nics, item.nic) # 0
NicIn(tree, item) ==
    tree.Vms[FindVm(tree.Vms, item.vm)]
        .Nics[FindNic(tree.Vms[FindVm(tree.Vms, item.vm)].Nics, item.nic)]

\* the role key of a column: 'Failover Test ...' columns belong to FailoverTest
RoleOfColumn(field) ==
    IF field \in Range(RoleColumns("Failover Test")) THEN "FailoverTest" ELSE "Failover"

\* a role that is a non-empty dict whose Hypervisor entry is no dict: a write
\* through nic[role]['Hypervisor'] raises
NoneBehind(role) ==
    /\ role.kind = "obj"
    /\ role.Hypervisor.kind # "obj"
    /\ role.Hypervisor.kind # "absent" \/ role.PublicCloud # Absent

\* the item is found in the draft and one of its writes raises
WriteRaises(tree, item) ==
    /\ HasNic(tree, item)
    /\ \E e \in DOMAIN item.changes :
          /\ item.changes[e].field
                \in Range(RoleColumns("Failover")) \cup Range(RoleColumns("Failover Test"))
          /\ NoneBehind(NicIn(tree, item)[RoleOfColumn(item.changes[e].field)])

\* the lines logging.error has written since the step began
NewLines == {logged'[m] : m \in (Len(logged) + 1)..Len(logged')}

\* C16 as the code has it: a lookup that fails is logged and the item is
\* passed over; the lookup failure itself raises nothing and does not end
\* the pass.  When list_vpgs does not list the VPG of the turn, an error
\* line names the VPG and update_vpg_settings goes on with the next VPG (or
\* returns after the last).  When the draft read lacks the VM or the NIC of
\* an item, an error line names the item (unless an earlier item of the VPG
\* raised on a write), and unless an item that was found raises on a write,
\* the loop over the items ends without an exception, has counted exactly
\* the items it found, and update_vpg_settings goes on.
C16_LookupFailureIsSkipped ==
    [][/\ (/\ pc = "apply" /\ job.phase = "list" /\ calls' # calls
           /\ VpgIndex(remote, TurnName) = 0)
          => /\ raised' = ""
             /\ pc' = IF turn + 1 = Len(GroupNames(changes)) THEN "done" ELSE "apply"
             /\ turn' = turn + 1
             /\ \E line \in NewLines : line.what = "VPG not found" /\ line.vpg = TurnName
       /\ (pc = "apply" /\ job.phase = "get" /\ calls' # calls)
          => /\ \A i \in DOMAIN TurnItems :
                  (/\ ~HasNic(job.held, TurnItems[i])
                   /\ \A j \in 1..(i - 1) : ~WriteRaises(job.held, TurnItems[j]))
                    => \E line \in NewLines :
                          /\ line.what \in {"VM not found", "NIC not found"}
                          /\ line.vm = TurnItems[i].vm
                          /\ line.nic = TurnItems[i].nic
             /\ (\A i \in DOMAIN TurnItems : ~WriteRaises(job.held, TurnItems[i]))
                    => /\ raised' = ""
                       /\ pc' = "apply"
                       /\ job'.phase = "update"
                       /\ job'.located =
                            Cardinality({i \in DOMAIN TurnItems :
                                           HasNic(job.held, TurnItems[i])})]_vars

\* the pass is done after the VM of an item of vpgA and the VPG of another
\* item were not found: both are logged, nothing was raised
C16_Witness ==
    /\ pc = "done"
    /\ raised = ""
    /\ \E m \in DOMAIN logged : logged[m].what = "VM not found" /\ logged[m].vm = S("vm2")
    /\ \E k \in DOMAIN changes : NotFound(changes[k]) /\ changes[k].vm = S("vm2")

\* the value the patcher stores for a changed field
Stored(field, updated) ==
    LET name == FieldTarget(field)[2]
    IN  CASE name = "Network" -> updated
          [] name \in {"ShouldReplaceIpConfiguration", "DHCP"} ->
               PyBool(normalize_value(updated) = S("true"))
          [] name = "Subnet" /\ updated = S("") -> S("255.255.255.0")
          [] updated = S("") -> PyNone
          [] OTHER -> updated

\* the entry of a NIC that a column is written to
Held(nic, field) ==
    LET hyp == nic[RoleOfColumn(field)].Hypervisor
        name == FieldTarget(field)[2]
    IN  CASE name = "Network" -> hyp.NetworkIdentifier
          [] name = "ShouldReplaceIpConfiguration" -> hyp.ShouldReplaceIpConfiguration
          [] name = "DHCP" -> hyp.IpConfig.IsDhcp
          [] name = "IP" -> hyp.IpConfig.StaticIp
          [] name = "Subnet" -> hyp.IpConfig.SubnetMask
          [] name = "Gateway" -> hyp.IpConfig.Gateway
          [] name = "DNS1" -> hyp.IpConfig.PrimaryDns
          [] name = "DNS2" -> hyp.IpConfig.SecondaryDns

\* C17: a lookup failure passes over that item only.  Once the pass is done,
\* every change item whose lookup did not fail has its VPG's draft created,
\* written and committed, and the committed draft holds every changed field
\* of the item (network, replace-gate, DHCP flag, addresses) with its new
\* value, whatever happened to the other items.
C17_OtherItemsStillApplied ==
    pc = "done" =>
        \A k \in DOMAIN changes :
            ~NotFound(changes[k])
                => /\ {"create_vpg_settings", "update_vpg_settings", "commit_vpg"}
                        \subseteq CallsFor(changes[k].vpg)
                   /\ DraftsOf(changes[k].vpg) # {}
                   /\ \A d \in DraftsOf(changes[k].vpg) :
                        \A e \in DOMAIN changes[k].changes :
                          Held(NicIn(drafts[d].after, changes[k]), changes[k].changes[e].field)
                             = Stored(changes[k].changes[e].field,
                                      changes[k].changes[e].updated)

\* the pass is done on three items: the NIC of the first was not found, the
\* second is of the same VPG and its network and address are in the draft
\* committed, the third is of another VPG and its network, DHCP flag and
\* address are in the draft committed
C17_Witness ==
    /\ pc = "done"
    /\ Len(changes) = 3
    /\ NotFound(changes[2])
    /\ ~NotFound(changes[1]) /\ changes[1].vpg = changes[2].vpg
    /\ ~NotFound(changes[3]) /\ changes[3].vpg # changes[2].vpg
    /\ \E d \in DraftsOf(changes[1].vpg) :
          /\ NicIn(drafts[d].after, changes[1]).Failover.Hypervisor.NetworkIdentifier
                = S("Net-C")
          /\ NicIn(drafts[d].after, changes[1]).Failover.Hypervisor.IpConfig.StaticIp
                = S("10.0.0.6")
    /\ \E d \in DraftsOf(changes[3].vpg) :
          /\ NicIn(drafts[d].after, changes[3]).FailoverTest.Hypervisor.NetworkIdentifier
                = S("Net-C")
          /\ NicIn(drafts[d].after, changes[3]).Failover.Hypervisor.IpConfig.IsDhcp = PyFalse
          /\ NicIn(drafts[d].after, changes[3]).Failover.Hypervisor.IpConfig.StaticIp
                = S("10.0.0.9")

----------------------------------------------------------------------------
(* Flattening, stated on the tree *)

\* the positions <<g, v, n>> of the NICs of the server's settings
NicPositions ==
    UNION {UNION {{<<g, v, n>> : n \in DOMAIN remote[g].Vms[v].Nics} :
                    v \in DOMAIN remote[g].Vms} : g \in DOMAIN remote}

Before(p, q) ==
    \/ p[1] < q[1]
    \/ p[1] = q[1] /\ p[2] < q[2]
    \/ p[1] = q[1] /\ p[2] = q[2] /\ p[3] < q[3]

\* the place of a NIC in VPG, VM, NIC traversal order
Rank(pos) == Cardinality({q \in NicPositions : Before(q, pos)}) + 1

NicAt(pos) == remote[pos[1]].Vms[pos[2]].Nics[pos[3]]

\* a role is read through its Hypervisor dict when both are there, and the
\* IpConfig through that
Readable(role) == role.kind = "obj" /\ role.Hypervisor.kind = "obj"
ReadableIpc(role) == Readable(role) /\ role.Hypervisor.IpConfig.kind = "obj"

\* a NIC without the role's key, or a role with entries but no Hypervisor
\* entry: the tree is structurally invalid
Unreadable(role) ==
    \/ role.kind = "absent"
    \/ role.kind = "obj" /\ role.Hypervisor.kind = "absent" /\ role.PublicCloud # Absent

InvalidTree ==
    \E pos \in NicPositions : Unreadable(NicAt(pos).Failover) \/ Unreadable(NicAt(pos).FailoverTest)

\* get_current_settings has returned its records
Flattened == pc \in {"rt_compare", "rt_apply", "rt_raised", "rt_done"}

TreeKeyOf(name) ==
    CASE name = "IP" -> "StaticIp" [] name = "Subnet" -> "SubnetMask"
      [] name = "Gateway" -> "Gateway" [] name = "DNS1" -> "PrimaryDns"
      [] name = "DNS2" -> "SecondaryDns"

\* the value under a column of a role in the tree; Absent when the role,
\* its Hypervisor dict, its IpConfig or the key is not there or null
Underlying(role, name) ==
    CASE name = "Network" ->
           IF Readable(role) THEN role.Hypervisor.NetworkIdentifier ELSE Absent
      [] name = "ShouldReplaceIpConfiguration" ->
           IF Readable(role) THEN role.Hypervisor.ShouldReplaceIpConfiguration ELSE Absent
      [] name = "DHCP" ->
           IF ReadableIpc(role) THEN role.Hypervisor.IpConfig.IsDhcp ELSE Absent
      [] OTHER ->
           IF ReadableIpc(role) THEN role.Hypervisor.IpConfig[TreeKeyOf(name)] ELSE Absent

FlagNames == {"ShouldReplaceIpConfiguration", "DHCP"}

OneRecordPerNicInOrder ==
    /\ Len(current_settings) = Cardinality(NicPositions)
    /\ \A pos \in NicPositions :
         Key(current_settings[Rank(pos)]) =
             <<S(remote[pos[1]].Name), S(remote[pos[1]].Vms[pos[2]].VmIdentifier),
               S(NicAt(pos).NicIdentifier)>>

\* C18 as stated: flattening yields one record per NIC in traversal order
\* and every value cell is a string: '' when the underlying value is absent
\* or null, 'False' for an absent flag.
C18_FlattenYieldsStrings ==
    /\ pc # "rt_read_failed"
    /\ Flattened =>
        /\ OneRecordPerNicInOrder
        /\ \A pos \in NicPositions : \A p \in DOMAIN Prefixes : \A i \in DOMAIN RoleFieldNames :
             LET cell == current_settings[Rank(pos)][Col(Prefixes[p], RoleFieldNames[i])]
                 under == Underlying(NicAt(pos)[RoleKey(Prefixes[p])], RoleFieldNames[i])
             IN  /\ cell[1] = "str"
                 /\ (under \in {Absent, PyNone} /\ RoleFieldNames[i] \notin FlagNames)
                        => cell = S("")
                 /\ (under = Absent /\ RoleFieldNames[i] \in FlagNames) => cell = S("False")

\* C18 as the code has it.  A tree in which a NIC lacks a role key, or has
\* a non-empty role without a Hypervisor entry, is not flattened:
\* get_current_settings raises KeyError and returns no record.  Any other
\* tree gives one record per NIC in traversal order; a flag cell is the
\* text of the flag, 'False' when the flag is not there; a network or
\* address cell is '' when the role or its Hypervisor dict is null or empty,
\* when the IpConfig is missing, null or empty, or when the key is missing,
\* and otherwise the tree's own value, which is None (not a string) when
\* the tree holds null.
C18_FlattenKeepsNull ==
    /\ pc = "rt_read_failed" =>
          InvalidTree /\ raised = "KeyError" /\ current_settings = <<>>
    /\ Flattened =>
        /\ ~InvalidTree
        /\ OneRecordPerNicInOrder
        /\ \A pos \in NicPositions : \A p \in DOMAIN Prefixes : \A i \in DOMAIN RoleFieldNames :
             LET cell == current_settings[Rank(pos)][Col(Prefixes[p], RoleFieldNames[i])]
                 under == Underlying(NicAt(pos)[RoleKey(Prefixes[p])], RoleFieldNames[i])
             IN  IF RoleFieldNames[i] \in FlagNames
                 THEN cell = IF under = Absent THEN S("False") ELSE S(PyStr(under))
                 ELSE cell = IF under = Absent THEN S("") ELSE under

\* the tree with missing entries is flattened: three records; the empty
\* role and the empty Hypervisor dict give '' and 'False', the IpConfig with
\* one entry gives that entry and '' for the rest, and the IpConfig that
\* holds nulls gives None
C18_Witness ==
    /\ pc = "rt_compare"
    /\ remote = SparseTree
    /\ Len(current_settings) = 3
    /\ current_settings[1]["Failover Network"] = S("")
    /\ current_settings[1]["Failover ShouldReplaceIpConfiguration"] = S("False")
    /\ current_settings[1]["Failover Test IP"] = S("")
    /\ current_settings[2]["Failover Network"] = S("Net-A")
    /\ current_settings[2]["Failover DHCP"] = S("False")
    /\ current_settings[2]["Failover Test Subnet"] = S("")
    /\ current_settings[3]["Failover IP"] = S("10.0.0.5")
    /\ current_settings[3]["Failover Gateway"] = S("")
    /\ current_settings[3]["Failover Test IP"] = PyNone

----------------------------------------------------------------------------
(* convert_export_settings_to_csv.py: the rows it makes of an exported     *)
(* settings file, handed to the import as its CSV.                         *)

\* the eight cells extract_nic_settings builds for one role of a NIC
ConvertRole(prefix, role) ==
    LET hyp == ExtractHypervisor(role)
        ipc == ExtractIpConfig(hyp)
    IN  (Col(prefix, "Network") :> Get(hyp.NetworkIdentifier, S("")))
        @@ (Col(prefix, "IP") :> Get(ipc.StaticIp, S("")))
        @@ (Col(prefix, "Subnet") :> Get(ipc.SubnetMask, S("")))
        @@ (Col(prefix, "Gateway") :> Get(ipc.Gateway, S("")))
        @@ (Col(prefix, "DNS1") :> Get(ipc.PrimaryDns, S("")))
        @@ (Col(prefix, "DNS2") :> Get(ipc.SecondaryDns, S("")))
        @@ (Col(prefix, "DHCP") :>
                IF Truthy(Get(ipc.IsDhcp, PyFalse)) THEN S("Yes") ELSE S("No"))
        @@ (Col(prefix, "IsDhcp") :> Get(ipc.IsDhcp, PyFalse))

ConvertNic(vpg_name, vm_id, nic) ==
    ("VPG Name" :> S(vpg_name)) @@ ("VM Identifier" :> S(vm_id))
    @@ ("NIC Identifier" :> S(nic.NicIdentifier))
    @@ ConvertRole("Failover", nic.Failover)
    @@ ConvertRole("Failover Test", nic.FailoverTest)

RECURSIVE ConvertNics(_, _, _)
ConvertNics(vpg_name, vm_id, nics) ==
    IF nics = <<>> THEN <<>>
    ELSE <<ConvertNic(vpg_name, vm_id, Head(nics))>>
         \o ConvertNics(vpg_name, vm_id, Tail(nics))

RECURSIVE ConvertVms(_, _)
ConvertVms(vpg_name, vms) ==
    IF vms = <<>> THEN <<>>
    ELSE ConvertNics(vpg_name, Head(vms).VmIdentifier, Head(vms).Nics)
         \o ConvertVms(vpg_name, Tail(vms))

\* extract_nic_settings(json_data): one row per NIC
RECURSIVE extract_nic_settings(_)
extract_nic_settings(json_data) ==
    IF json_data = <<>> THEN <<>>
    ELSE ConvertVms(Head(json_data).Name, Head(json_data).Vms)
         \o extract_nic_settings(Tail(json_data))

ConvertColumns(prefix) ==
    <<Col(prefix, "Network"), Col(prefix, "IP"), Col(prefix, "Subnet"),
      Col(prefix, "Gateway"), Col(prefix, "DNS1"), Col(prefix, "DNS2"),
      Col(prefix, "DHCP"), Col(prefix, "IsDhcp")>>

\* the header of the converter's CSV
convert_fieldnames ==
    IdentityFields \o ConvertColumns("Failover") \o ConvertColumns("Failover Test")

ConvertInit ==
    /\ remote \in RoundTripTrees
    /\ csv_header = <<>>
    /\ csv_rows = <<>>
    /\ vpg_names = <<>>
    /\ updated_settings = <<>>
    /\ current_settings = <<>>
    /\ changes = <<>>
    /\ pc = "convert"
    /\ calls = <<>>
    /\ drafts = <<>>
    /\ raised = ""
    /\ response = ""
    /\ nv = NoNv
    /\ printed = NoTotal
    /\ turn = 0
    /\ job = IdleJob
    /\ exports = <<>>
    /\ jm = IdleJm
    /\ ee = IdleEe
    /\ ex = IdleEx
    /\ cv = IdleCv
    /\ others = NoOthers
    /\ timestamp = 0
    /\ logged = <<>>

\* the converter's main: the rows of the settings, written as CSV.  A NIC
\* without a role key, or with a non-empty role without a Hypervisor entry,
\* makes extract_nic_settings raise KeyError (l.77, l.82); main has no
\* handler, the script ends there and writes no file
Convert ==
    /\ pc = "convert"
    /\ IF FlattenRaises(remote)
       THEN /\ raised' = "KeyError"
            /\ pc' = "convert_failed"
            /\ UNCHANGED <<csv_header, csv_rows>>
       ELSE /\ csv_header' = convert_fieldnames
            /\ csv_rows' = [i \in DOMAIN extract_nic_settings(remote) |->
                               CsvRow(extract_nic_settings(remote)[i])]
            /\ pc' = "read_csv"
            /\ UNCHANGED raised
    /\ UNCHANGED <<timestamp, logged, exports, jm, ee, ex, cv, others, job, turn, printed,
                   remote, updated_settings, current_settings, changes, calls, drafts,
                   response, vpg_names, nv>>

ConvertNext == Convert \/ Next

ConvertSpec == ConvertInit /\ [][ConvertNext]_vars

\* C19: the converter's rows are compatible with the import.  Importing the
\* unedited rows converted from a tree, against the records flattened from
\* that tree, raises no validation error and yields an empty change list,
\* and no role with IsDhcp = true is written with another IsDhcp.
C19_ConvertedRowsImportCleanly ==
    /\ Compared => (raised # "ValueError" /\ changes = <<>>)
    /\ \A d \in DOMAIN drafts :
         \A v \in DOMAIN drafts[d].before.Vms :
            \A n \in DOMAIN drafts[d].before.Vms[v].Nics : \A k \in RoleKeys :
                IpConfigOf(drafts[d].before.Vms[v].Nics[n], k).IsDhcp = PyTrue
                    => IpConfigOf(drafts[d].after.Vms[v].Nics[n], k).IsDhcp = PyTrue

----------------------------------------------------------------------------
(* CSV files whose header lacks a column *)

\* csv.DictReader builds every row from the header line: a column the header
\* lacks is a key no row has
WithoutColumn(row, column) == [c \in DOMAIN row \ {column} |-> row[c]]

HeaderWithout(column) == SelectSeq(fieldnames, LAMBDA c : c # column)

\* one identity column, and one column of each per-role kind
MissingColumns ==
    { "NIC Identifier", Col("Failover", "Network"),
      Col("Failover", "ShouldReplaceIpConfiguration"), Col("Failover", "DHCP"),
      Col("Failover", "IP") }

\* vm1/nic0 as exported and with another address, vm1/nic1 switched to DHCP,
\* vm3/nic0 with another network for the test role
ColumnRows ==
    { ExportedRows[1],
      Over(("Failover IP" :> S("10.0.0.6")), ExportedRows[1]),
      Over(("Failover ShouldReplaceIpConfiguration" :> S("True"))
           @@ ("Failover DHCP" :> S("true")), ExportedRows[2]),
      Over(("Failover Test Network" :> S("Net-C")), ExportedRows[4]) }

ColumnFiles(column) ==
    { [i \in DOMAIN file |-> WithoutColumn(file[i], column)] :
        file \in SeqsUpTo(ColumnRows, MaxRows) }

ColumnInit ==
    \E column \in MissingColumns : \E file \in ColumnFiles(column) :
        /\ remote = FourNicTree
        /\ csv_header = HeaderWithout(column)
        /\ csv_rows = file
        /\ vpg_names = <<>>
        /\ updated_settings = <<>>
        /\ current_settings = <<>>
        /\ changes = <<>>
        /\ pc = "read_csv"
        /\ calls = <<>>
        /\ drafts = <<>>
        /\ raised = ""
        /\ response = ""
        /\ nv = NoNv
        /\ printed = NoTotal
        /\ turn = 0
        /\ job = IdleJob
        /\ exports = <<>>
        /\ jm = IdleJm
        /\ ee = IdleEe
        /\ ex = IdleEx
    /\ cv = IdleCv
    /\ others = NoOthers
    /\ timestamp = 0
    /\ logged = <<>>

ColumnSpec == ColumnInit /\ [][Next]_vars

HeaderLacksColumn == Range(fieldnames) \ Range(csv_header) # {}

\* C20 (as stated): a desired record set that lacks a required column (an
\* identity column, or a per-role network, replace-gate, dhcp or address
\* column) makes the pass fail before any record is diffed: once the rows
\* have been compared the pass has ended on the missing column with nothing
\* diffed, and no row was validated or diffed with the column read as empty
\* or false.
C20_MissingColumnFailsFast ==
    (HeaderLacksColumn /\ csv_rows # <<>> /\ Compared)
        => (pc = "exit_1" /\ raised = "KeyError" /\ changes = <<>>)

----------------------------------------------------------------------------
(* The patcher's writes *)

\* the role keys of the fields an item changes
RolesWritten(item) ==
    { FieldTarget(item.changes[e].field)[1] :
        e \in {x \in DOMAIN item.changes : FieldTarget(item.changes[x].field) # <<>>} }

\* update_vpg_settings is about to read the draft of a VPG and patch it:
\* the change items of that VPG whose interface is in the draft and that
\* change a field of a role whose Hypervisor entry is absent or null there
WritesUnbacked ==
    { k \in DOMAIN changes :
        /\ pc = "apply" /\ job.phase = "get"
        /\ changes[k].vpg = TurnName
        /\ HasNic(job.held, changes[k])
        /\ \E r \in RolesWritten(changes[k]) :
              NicIn(job.held, changes[k])[r].Hypervisor.kind # "obj" }

\* C21: lazy materialization.  When update_vpg_settings patches a draft for
\* a change item that writes to a role whose Hypervisor sub-object is absent
\* or null in it (the role itself null, or the role present with a null
\* Hypervisor), the patching ends without an exception and every role the
\* item writes to has a Hypervisor object in the patched draft.
C21_LazyMaterialization ==
    [][(WritesUnbacked # {} /\ calls' # calls) =>
          /\ raised' = ""
          /\ \A k \in WritesUnbacked : \A r \in RolesWritten(changes[k]) :
                NicIn(job'.settings, changes[k])[r].Hypervisor.kind = "obj"]_vars

\* the IpConfig key an address column is written to
IpKeyOf(name) == IpKeys[CHOOSE i \in DOMAIN AddressFields : AddressFields[i] = name]

\* the changes of address fields made by the items of the interface at
\* Vms[v].Nics[n] of a draft: <<role key, column name, new value>>
AddressWrites(draft, v, n) ==
    UNION { { <<FieldTarget(changes[k].changes[e].field)[1],
                FieldTarget(changes[k].changes[e].field)[2],
                changes[k].changes[e].updated>> :
                e \in {x \in DOMAIN changes[k].changes :
                         /\ FieldTarget(changes[k].changes[x].field) # <<>>
                         /\ FieldTarget(changes[k].changes[x].field)[2]
                               \in Range(AddressFields)} } :
            k \in ItemsAt(draft, v, n) }

\* the value an address write leaves in the IpConfig
StoredAddress(name, updated) ==
    IF updated # S("") THEN updated
    ELSE IF name = "Subnet" THEN S("255.255.255.0")
    ELSE PyNone

\* the IpConfig is not there for the patcher: missing, null or {}
NoIpConfig(ipc) ==
    \/ ipc.kind # "obj"
    \/ \A k \in {"IsDhcp"} \cup Range(IpKeys) : ipc[k] = Absent

\* an item of the interface at Vms[v].Nics[n] changes the DHCP flag of role r
\* to true (the write of l.414-430, l.464-480 then sets the five address
\* entries to None)
DhcpTurnedOn(draft, v, n, r) ==
    \E k \in ItemsAt(draft, v, n) :
        \E e \in DOMAIN changes[k].changes :
            /\ FieldTarget(changes[k].changes[e].field) = <<r, "DHCP">>
            /\ normalize_value(changes[k].changes[e].updated) = S("true")

\* the address writes of role r of the interface at Vms[v].Nics[n]: the
\* role's IpConfig is an object and holds, for every address field changed,
\* the new value as given when that is non-empty, null when it is empty and
\* the field is StaticIp, Gateway, PrimaryDns or SecondaryDns, and
\* '255.255.255.0' when it is empty and the field is SubnetMask; and an
\* IpConfig that was not there when the draft was read has IsDhcp = false
\* and null in every address field the items do not change
StoredAsWritten(draft, v, n, r) ==
    LET before == IpConfigOf(draft.before.Vms[v].Nics[n], r)
        after == IpConfigOf(draft.after.Vms[v].Nics[n], r)
        writes == {w \in AddressWrites(draft, v, n) : w[1] = r}
        written == {w[2] : w \in writes}
    IN  /\ \A w \in writes :
              /\ after.kind = "obj"
              /\ after[IpKeyOf(w[2])] = StoredAddress(w[2], w[3])
        /\ (writes # {} /\ NoIpConfig(before)) =>
              /\ after.IsDhcp = PyFalse
              /\ \A i \in DOMAIN AddressFields :
                    AddressFields[i] \notin written => after[IpKeys[i]] = PyNone

\* no item of the interface changes the subnet of role r, whose IpConfig was
\* there when the draft was read
SubnetNotChanged(draft, v, n, r) ==
    /\ ~NoIpConfig(IpConfigOf(draft.before.Vms[v].Nics[n], r))
    /\ \A w \in AddressWrites(draft, v, n) : ~(w[1] = r /\ w[2] = "Subnet")

----------------------------------------------------------------------------
(* The same CSV file imported again *)

MaxPasses == 2        \* runs of main over the same CSV file

\* the runs of main that have exported the server's settings
Passes == Cardinality({i \in DOMAIN calls : calls[i].op = "export_vpg_settings"})

\* main is run again with the same arguments after a pass that applied its
\* changes: the file and the server are as the pass left them
Reimport ==
    /\ pc = "done"
    /\ Passes < MaxPasses
    /\ pc' = "read_csv"
    /\ updated_settings' = <<>>
    /\ current_settings' = <<>>
    /\ changes' = <<>>
    /\ raised' = ""
    /\ response' = ""
    /\ printed' = NoTotal
    /\ turn' = 0
    /\ job' = IdleJob
    /\ timestamp' = 0
    /\ UNCHANGED <<logged, exports, jm, ee, ex, cv, others, remote, csv_header, csv_rows,
                   calls, drafts, vpg_names, nv>>

ReimportInit ==
    \/ \E shape \in NicShapes :
         \E file \in OneNicFiles(OneNicTree(shape)) :
            Start(OneNicTree(shape), file, <<>>)
    \/ \E file \in SeqsUpTo(ColumnRows, MaxRows) : Start(FourNicTree, file, <<>>)

ReimportNext == Next \/ Reimport

ReimportSpec == ReimportInit /\ [][ReimportNext]_vars

\* the identity triples of the interfaces a written draft changed
\* display_changes has returned
Reported ==
    \/ pc \in {"no_changes", "prompt", "apply", "cancelled", "done"}
    \/ pc = "exit_1" /\ raised \in {"TypeError", "AttributeError"}

PatchedKeys ==
    UNION { UNION { { NicKey(drafts[d], v, n) :
                        n \in { m \in DOMAIN drafts[d].before.Vms[v].Nics :
                                  drafts[d].after.Vms[v].Nics[m]
                                      # drafts[d].before.Vms[v].Nics[m] } } :
                    v \in DOMAIN drafts[d].before.Vms } :
            d \in DOMAIN drafts }

\* a later run of main has compared the file with the patched server and
\* has not yet applied anything
ComparedAgain ==
    /\ Passes > 1
    /\ pc \in {"validation_error", "no_changes", "display", "prompt", "cancelled"}

\* C23: convergence of apply.  When the CSV file of a pass that patched and
\* committed its change list is imported again, the second comparison
\* returns no change item for an interface the first pass patched.
C23_ApplyConverges ==
    ComparedAgain =>
        /\ raised = "none"
        /\ \A k \in DOMAIN changes : ItemKey(changes[k]) \notin PatchedKeys

\* C24: an unedited export always validates.  Comparing the records
\* flattened from a settings tree with themselves never ends in the
\* validation error.
C24_UneditedExportValidates ==
    RtCompared => raised # "ValueError"

\* C25: the validator accepts what breaks no rule.  When every desired
\* record has, for each role, either its replace-gate not true with dhcp not
\* true and the five address cells empty, or its replace-gate true with
\* exactly one of dhcp true and an address cell filled, compare_settings does
\* not raise the validation error; and the desired records are, after the
\* call, the records read from the file.
C25_ValidatorAcceptsValid ==
    Compared =>
        /\ (\A i \in DOMAIN updated_settings : ~BreaksARule(updated_settings[i]))
              => (raised # "ValueError" /\ pc # "validation_error")
        /\ updated_settings = csv_rows

\* a record with one role on dhcp behind a true gate and the other role
\* with a false gate and no address data was compared and a change returned
C25_Witness ==
    /\ pc = "prompt"
    /\ raised = "none"
    /\ \E i \in DOMAIN updated_settings :
         /\ GateIsTrue(updated_settings[i], "Failover")
         /\ DhcpIsTrue(updated_settings[i], "Failover")
         /\ ~HasAddress(updated_settings[i], "Failover")
         /\ ~GateIsTrue(updated_settings[i], "Failover Test")
         /\ ~DhcpIsTrue(updated_settings[i], "Failover Test")
         /\ ~HasAddress(updated_settings[i], "Failover Test")

\* every address cell of a role holds an empty sentinel
OnlyEmptySentinels(row, prefix) ==
    \A i \in DOMAIN AddressFields :
        normalize_value(row[Col(prefix, AddressFields[i])]) = S("")

\* C26: the validator and the diff agree on emptiness.  A desired set in
\* which, for every record and role, the replace-gate and dhcp are not true
\* and every address cell normalizes to the empty value ('', 'None', 'null')
\* is validated as a set without static data: compare_settings does not
\* raise the validation error.
C26_SentinelsAreNoStaticData ==
    (Compared /\ \A i \in DOMAIN updated_settings, p \in DOMAIN Prefixes :
                    /\ ~GateIsTrue(updated_settings[i], Prefixes[p])
                    /\ ~DhcpIsTrue(updated_settings[i], Prefixes[p])
                    /\ OnlyEmptySentinels(updated_settings[i], Prefixes[p]))
        => raised # "ValueError"

\* C27: normalize_value is idempotent.  Normalizing a normalized value gives
\* the normalized value back.
C27_NormalizeIsIdempotent ==
    nv.step = "twice" => (nv.nna = nv.na /\ nv.nnb = nv.nb)

\* the calls made for VPGs, in the order they were made
VpgCalls == SelectSeq(calls, LAMBDA c : c.op \in VpgOps)

\* list-group, create-draft, read-draft, write-draft, commit-draft of a group
GroupBlock(name) ==
    <<Call("list_vpgs", name), Call("create_vpg_settings", name),
      Call("get_vpg_settings_by_id", name), Call("update_vpg_settings", name),
      Call("commit_vpg", name)>>

\* the VPG names of the change items by first appearance, without repeats
RECURSIVE FirstAppearances(_, _)
FirstAppearances(items, seen) ==
    IF items = <<>> THEN <<>>
    ELSE IF Head(items).vpg \in seen THEN FirstAppearances(Tail(items), seen)
    ELSE <<Head(items).vpg>> \o FirstAppearances(Tail(items), seen \cup {Head(items).vpg})

RECURSIVE Blocks(_)
Blocks(names) ==
    IF names = <<>> THEN <<>> ELSE GroupBlock(Head(names)) \o Blocks(Tail(names))

IsPrefix(s, t) == Len(s) <= Len(t) /\ s = SubSeq(t, 1, Len(s))

\* C28: order of the remote calls.  The calls update_vpg_settings makes are,
\* group after group in the order of the groups' first change items,
\* list-group, create-draft, read-draft, write-draft and commit-draft of the
\* group, each once: a pass that ends normally has made exactly these calls,
\* and at every moment the calls made are a beginning of them, so no call of
\* a group precedes the commit of the group before it.
C28_CallOrder ==
    /\ IsPrefix(VpgCalls, Blocks(FirstAppearances(changes, {})))
    /\ pc = "done" => VpgCalls = Blocks(FirstAppearances(changes, {}))

\* a pass over items of vpgB, then vpgA, then vpgB again has ended
C28_Witness ==
    /\ pc = "done"
    /\ Len(changes) = 3
    /\ changes[1].vpg = S("vpgB")
    /\ changes[2].vpg = S("vpgA")
    /\ changes[3].vpg = S("vpgB")
    /\ Len(VpgCalls) = 10

\* C29: no commit without a located item.  Every draft written and committed
\* had at least one change item of its group located and patched into it.
C29_CommitOnlyIfLocated ==
    \A d \in DOMAIN drafts : drafts[d].located > 0

\* C30: the change report.  The total display_changes prints for a non-empty
\* change list, 'Total changes: N NIC(s) across M VPG(s)', has N equal to the
\* number of change items and M equal to the number of distinct VPGs of the
\* items, and the change list is, after the report, the list compare_settings
\* returned.
C30_ReportTotals ==
    (Reported /\ changes # <<>>) =>
        /\ printed.line = "Total changes"
        /\ printed.nics = Len(changes)
        /\ printed.vpgs = Cardinality({changes[k].vpg : k \in DOMAIN changes})
        /\ changes = compare_settings(current_settings, updated_settings, csv_header).changes

====
